---- MODULE Spec2Model ----
(***************************************************************************)
(* Model of the TESK-LIST task tracker (src/App.tsx, TaskCard.tsx,         *)
(* TaskReportModal, geminiService).                                        *)
(*                                                                         *)
(* Representation.                                                         *)
(*  - A text string is a sequence of one-character strings; '' is <<>>.    *)
(*  - A date string 'YYYY-MM-DD' is ISO(d) == <<1, d>>, d the number of    *)
(*    days since 2025-01-01; '' is <<>>; null and undefined are Null.        *)
(*    On such strings localeCompare is the order of the day numbers.       *)
(*  - An instant (Date) is a number of hours since 2025-01-01T00:00Z.      *)
(*    tz is the local zone's offset from UTC in hours (no DST modelled).   *)
(***************************************************************************)
EXTENDS Integers, Sequences, FiniteSets, TLC

VARIABLES
    tasks,                  \* App.tsx:12  useState<Task[]>
    inputValue,             \* App.tsx:13
    status,                 \* App.tsx:14  ProcessingStatus
    error,                  \* App.tsx:15
    selectedTaskForReport,  \* App.tsx:18  Task snapshot shown in the report modal
    searchQuery,            \* App.tsx:36
    filterAssignee,         \* App.tsx:37
    filterStatus,           \* App.tsx:38
    sortOrder,              \* App.tsx:39
    selectedTaskIds,        \* App.tsx:42
    filteredTasks,          \* App.tsx:151 memoised view
    scriptUrl,              \* localStorage 'googleAppsScriptUrl'
    googleSheetUrl,         \* App.tsx:24
    storedTasks,            \* localStorage 'tasks': <<>> when the key is absent, else <<text>>
    pendingAdd,             \* handleAddTask calls suspended at the await of line 335
    pendingSync,            \* handleSyncSheet calls suspended at the await of line 286
    alerts,                 \* texts passed to window.alert, oldest first
    now,                    \* the wall clock, new Date()
    tz,                     \* the browser's time zone offset
    nextId,                 \* source of crypto.randomUUID()
    lastOp,                 \* history: the handler that ran last, its arguments and
                            \* the addressed task as it was before the handler ran
    createdOn               \* history: task id -> the local day on which it was created

vars == <<tasks, inputValue, status, error, selectedTaskForReport, searchQuery,
          filterAssignee, filterStatus, sortOrder, selectedTaskIds, filteredTasks,
          scriptUrl, googleSheetUrl, storedTasks, pendingAdd, pendingSync, alerts, now, tz,
          nextId, lastOp, createdOn>>

-----------------------------------------------------------------------------
(* Bounds *)

MaxTasks == 2       \* tasks in the store, suspended creations included
MaxIds == 3         \* identifiers crypto.randomUUID() hands out in one behaviour
MaxReports == 1     \* report entries per task
MaxAlerts == 1      \* alerts remembered
MaxDay == 0         \* the sampled days are 0..MaxDay and the same days a year later
MaxPending == 1     \* sync calls suspended at their await at one time

-----------------------------------------------------------------------------
(* JavaScript values *)

Null == <<"null">>                \* null / undefined (no text of the model holds this character)
EmptyStr == <<>>                  \* ''
ISO(d) == <<1, d>>                \* the date string of day d
DayOf(s) == s[2]                  \* the day a date string names
Truthy(x) == x # Null /\ x # EmptyStr
Or(a, b) == IF Truthy(a) THEN a ELSE b      \* a || b

Min(a, b) == IF a < b THEN a ELSE b
CeilDiv(a, b) == -((-a) \div b)             \* Math.ceil(a / b), b > 0

(* String.prototype.trim: strip leading and trailing white space *)
RECURSIVE TrimStart(_)
TrimStart(s) == IF s # <<>> /\ Head(s) = " " THEN TrimStart(Tail(s)) ELSE s
RECURSIVE TrimEnd(_)
TrimEnd(s) == IF s # <<>> /\ s[Len(s)] = " " THEN TrimEnd(SubSeq(s, 1, Len(s) - 1)) ELSE s
Trim(s) == TrimEnd(TrimStart(s))

(* String.prototype.toLowerCase on the alphabet of the model *)
LowerChar(c) == IF c = "A" THEN "a" ELSE IF c = "B" THEN "b" ELSE c
ToLowerCase(s) == [i \in 1..Len(s) |-> LowerChar(s[i])]

(* String.prototype.startsWith / includes *)
StartsWith(s, p) == Len(p) <= Len(s) /\ SubSeq(s, 1, Len(p)) = p
Includes(s, q) == \E i \in 1..(Len(s) - Len(q) + 1) : SubSeq(s, i, i + Len(q) - 1) = q

(* String(n) for n >= 0, and padStart(2, '0') *)
Digit(n) == <<"0", "1", "2", "3", "4", "5", "6", "7", "8", "9">>[n + 1]
RECURSIVE ToStr(_)
ToStr(n) == IF n < 10 THEN <<Digit(n)>> ELSE ToStr(n \div 10) \o <<Digit(n % 10)>>
PadStart2(s) == IF Len(s) < 2 THEN <<"0">> \o s ELSE s

(* localeCompare on texts over digits, '-' and letters: punctuation sorts
   before digits, digits before letters; returns -1, 0 or 1 *)
CharRank(c) == IF c = " " THEN 0 ELSE IF c = "-" THEN 1
               ELSE IF c \in {"0","1","2","3","4","5","6","7","8","9"}
                    THEN 2 + (CHOOSE n \in 0..9 : Digit(n) = c)
               ELSE IF c \in {"a", "A"} THEN 20 ELSE 21
RECURSIVE TextCompare(_, _)
TextCompare(a, b) ==
    IF a = <<>> /\ b = <<>> THEN 0
    ELSE IF a = <<>> THEN -1
    ELSE IF b = <<>> THEN 1
    ELSE IF CharRank(Head(a)) < CharRank(Head(b)) THEN -1
    ELSE IF CharRank(Head(a)) > CharRank(Head(b)) THEN 1
    ELSE TextCompare(Tail(a), Tail(b))
(* localeCompare on two date strings *)
DateCompare(a, b) == IF DayOf(a) < DayOf(b) THEN -1 ELSE IF DayOf(a) > DayOf(b) THEN 1 ELSE 0

-----------------------------------------------------------------------------
(* The clock and the calendar *)

HoursPerDay == 24
MonthLen == <<31, 28, 31, 30, 31, 30, 31, 31, 30, 31, 30, 31>>
RECURSIVE SumLen(_)
SumLen(m) == IF m = 0 THEN 0 ELSE MonthLen[m] + SumLen(m - 1)
DaysPerYear == SumLen(12)

(* getMonth() + 1 and getDate() of the calendar day d *)
MonthOfDay(d) == CHOOSE m \in 1..12 : SumLen(m - 1) <= d % DaysPerYear /\ d % DaysPerYear < SumLen(m)
DateOfDay(d) == (d % DaysPerYear) - SumLen(MonthOfDay(d) - 1) + 1

SampleDays == (0..MaxDay) \cup {DaysPerYear + d : d \in 0..MaxDay}
SampleHours == {3, 20}
Instants == {HoursPerDay * d + h : d \in SampleDays, h \in SampleHours}
Zones == {-5, 8}

(* new Date().toISOString().split('T')[0]: the UTC date of instant t *)
ISODate(t) == ISO(t \div HoursPerDay)
(* the local calendar day of instant t (getMonth, getDate, setHours work on it) *)
LocalDay(t, z) == (t + z) \div HoursPerDay
(* d.setHours(0, 0, 0, 0): local midnight of the local day of t *)
SetHours0(t, z) == LocalDay(t, z) * HoursPerDay - z
(* new Date('YYYY-MM-DD'): a date-only string is parsed as UTC midnight *)
ParseDate(s) == DayOf(s) * HoursPerDay

-----------------------------------------------------------------------------
(* Domain values.  TaskStatus (types.ts:8): the four literals are written in
   ASCII: not-started = '未開始', in-progress = '進行中', waiting = '等待中',
   completed = '已完成'. *)

NotStarted == "not-started"
InProgress == "in-progress"
Waiting == "waiting"
Completed == "completed"
TaskStatus == {NotStarted, InProgress, Waiting, Completed}
Priority == {"Low", "Medium", "High"}

Progresses == {0, 50, 100}              \* positions of the range slider sampled
Contents == {<<>>, <<" ">>, <<"a">>}    \* report texts sampled
Inputs == {<<>>, <<" ">>, <<"a">>}      \* texts typed into the task input
ManualDates == {ISO(0)}                 \* dates typed into the completion-date input

(* ParsedTaskResponse (types.ts:50-61) values the extraction returns *)
Responses ==
    { [system |-> <<"a">>, category |-> <<"b">>, assigner |-> Null, assignee |-> Null,
       content |-> <<"a">>, targetDate |-> Null, priority |-> "High", tags |-> <<>>],
      [system |-> <<"a">>, category |-> <<"b">>, assigner |-> <<"A">>, assignee |-> <<"B">>,
       content |-> <<"a", "b">>, targetDate |-> ISO(1), priority |-> "Low", tags |-> <<>>] }

(* what await processTaskInput(inputValue) can come back with (part_001:57-97) *)
Outcomes == {[kind |-> "parsed", data |-> r] : r \in Responses}
            \cup {[kind |-> "null", data |-> Null], [kind |-> "throw", data |-> Null]}

(* the manual fields of the form (App.tsx:27-33) as they stand when Add is pressed *)
ManualForms ==
    { [system |-> EmptyStr, category |-> EmptyStr, assigner |-> EmptyStr, assignee |-> EmptyStr,
       assignedDate |-> EmptyStr, targetDate |-> EmptyStr, priority |-> "Medium"],
      [system |-> <<"B">>, category |-> EmptyStr, assigner |-> EmptyStr, assignee |-> <<"A">>,
       assignedDate |-> ISO(0), targetDate |-> ISO(2), priority |-> "High"] }

NoError == "null"
IdleStatus == [isProcessing |-> FALSE, message |-> ""]
NoOp == [op |-> "none"]

(* Array.prototype.filter / findIndex helpers *)
IndexOfId(ts, id) == CHOOSE i \in 1..Len(ts) : ts[i].id = id
HasId(ts, id) == \E i \in 1..Len(ts) : ts[i].id = id
Ids(ts) == {ts[i].id : i \in 1..Len(ts)}

(* window.alert(text): remembered newest last, the oldest dropped *)
Alert(as, text) ==
    LET all == Append(as, text)
    IN  IF Len(all) > MaxAlerts THEN SubSeq(all, Len(all) - MaxAlerts + 1, Len(all)) ELSE all

-----------------------------------------------------------------------------
(* Derivation pipeline *)

(* getTaskDueStatus with the difference taken as today - due *)
getTaskDueStatusReversed(targetDate, st, t, z) ==
    IF ~Truthy(targetDate) \/ st = Completed THEN "normal"
    ELSE LET diffDays == CeilDiv(SetHours0(t, z) - SetHours0(ParseDate(targetDate), z), HoursPerDay)
         IN  IF diffDays < 0 THEN "overdue"
             ELSE IF diffDays >= 0 /\ diffDays <= 3 THEN "due-soon"
             ELSE "normal"

(* getTaskDueStatus (App.tsx:129-143), read at instant t in zone z *)
getTaskDueStatus(targetDate, st, t, z) ==
    IF ~Truthy(targetDate) \/ st = Completed THEN "normal"
    ELSE LET today == SetHours0(t, z)
             due == SetHours0(ParseDate(targetDate), z)
             diffTime == due - today
             diffDays == CeilDiv(diffTime, HoursPerDay)
         IN  IF diffDays < 0 THEN "overdue"
             ELSE IF diffDays >= 0 /\ diffDays <= 3 THEN "due-soon"
             ELSE "normal"

(* TaskCard.getDueStatus (TaskCard.tsx:32-43); "null" stands for null *)
getDueStatus(task, t, z) ==
    IF ~Truthy(task.targetDate) \/ task.status = Completed THEN "null"
    ELSE LET today == SetHours0(t, z)
             due == SetHours0(ParseDate(task.targetDate), z)
             diffDays == CeilDiv(due - today, HoursPerDay)
         IN  IF diffDays < 0 THEN "overdue"
             ELSE IF diffDays >= 0 /\ diffDays <= 3 THEN "due-soon"
             ELSE "null"

All == <<"all">>        \* the pass-all value of the assignee filter

(* 1. Global Search (App.tsx:154-165) *)
SearchStage(ts, q) ==
    IF Trim(q) # EmptyStr
    THEN LET query == ToLowerCase(q)
             Match(t) == \/ Includes(ToLowerCase(t.content), query)
                         \/ Includes(ToLowerCase(t.assignee), query)
                         \/ Includes(ToLowerCase(t.system), query)
                         \/ Includes(ToLowerCase(t.assigner), query)
                         \/ Includes(ToLowerCase(t.taskNumber), query)
                         \/ (Truthy(t.notes) /\ Includes(ToLowerCase(t.notes), query))
         IN  SelectSeq(ts, Match)
    ELSE ts

(* 2. Filter by Assignee (App.tsx:167-170) *)
AssigneeStage(ts, fa) ==
    IF fa # All THEN LET Match(t) == t.assignee = fa IN SelectSeq(ts, Match) ELSE ts

(* 3. Filter by Status (App.tsx:172-177) *)
StatusStage(ts, fs) ==
    IF fs = "unfinished" THEN LET Match(t) == t.status # Completed IN SelectSeq(ts, Match)
    ELSE IF fs = "finished" THEN LET Match(t) == t.status = Completed IN SelectSeq(ts, Match)
    ELSE ts

(* the status stage filtering tasks instead of the previous stage's result *)
FilterStagesFromStore(ts, q, fa, fs) == StatusStage(ts, fs)

(* stages 1-3 in sequence, each on the previous stage's result (App.tsx:152-177) *)
FilterStages(ts, q, fa, fs) == StatusStage(AssigneeStage(SearchStage(ts, q), fa), fs)

(* the descending order written as the ascending comparator with its
   arguments exchanged *)
SortCompareMirrored(so, a, b) ==
    LET Asc(x, y) == IF ~Truthy(x.targetDate) THEN 1
                     ELSE IF ~Truthy(y.targetDate) THEN -1
                     ELSE DateCompare(x.targetDate, y.targetDate)
    IN  IF so = "date_asc" THEN Asc(a, b)
        ELSE IF so = "date_desc" THEN Asc(b, a)
        ELSE TextCompare(b.taskNumber, a.taskNumber)

(* 4. the comparator handed to sort (App.tsx:180-191) *)
SortCompare(so, a, b) ==
    IF so = "date_asc"
    THEN IF ~Truthy(a.targetDate) THEN 1
         ELSE IF ~Truthy(b.targetDate) THEN -1
         ELSE DateCompare(a.targetDate, b.targetDate)
    ELSE IF so = "date_desc"
    THEN IF ~Truthy(a.targetDate) THEN 1
         ELSE IF ~Truthy(b.targetDate) THEN -1
         ELSE DateCompare(b.targetDate, a.targetDate)
    ELSE TextCompare(b.taskNumber, a.taskNumber)

(* [...result].sort(cmp).  Array.prototype.sort is stable, and where the
   comparator is inconsistent (it answers 1 both ways for two undated tasks)
   the order is implementation-defined: every arrangement is allowed in which
   no pair the comparator orders the same way from both sides is inverted and
   pairs it calls equal from both sides keep their input order. *)
Perms(n) == {p \in [1..n -> 1..n] : \A i, j \in 1..n : p[i] = p[j] => i = j}
SortResults(ts, so) ==
    LET n == Len(ts)
        Ok(p) == \A i, j \in 1..n :
                   i < j =>
                     LET ab == SortCompare(so, ts[p[i]], ts[p[j]])
                         ba == SortCompare(so, ts[p[j]], ts[p[i]])
                     IN  /\ ~(ab > 0 /\ ba < 0)
                         /\ (ab = 0 /\ ba = 0) => p[i] < p[j]
    IN  IF n = 0 THEN {<<>>}
        ELSE {[i \in 1..n |-> ts[p[i]]] : p \in {q \in Perms(n) : Ok(q)}}

(* the values the filteredTasks memo can take (App.tsx:151-194) *)
View(ts, q, fa, fs, so) == SortResults(FilterStages(ts, q, fa, fs), so)

(* re-render: the memo is recomputed from the new state *)
Render == filteredTasks' \in View(tasks', searchQuery', filterAssignee', filterStatus', sortOrder')

(* assigneeStats (App.tsx:197-222).  The keys of stats in the order in which
   forEach creates them: the assignees of the unfinished tasks, by first
   appearance. *)
RECURSIVE StatsKeys(_)
StatsKeys(ts) ==
    IF ts = <<>> THEN <<>>
    ELSE LET init == StatsKeys(SubSeq(ts, 1, Len(ts) - 1))
             task == ts[Len(ts)]
         IN  IF task.status = Completed \/ ~Truthy(task.assignee) THEN init
             ELSE IF \E i \in 1..Len(init) : init[i] = task.assignee THEN init
             ELSE Append(init, task.assignee)

(* the counters forEach leaves under one key (App.tsx:201-216) *)
StatsOf(ts, name, t, z) ==
    LET Counted(x) == ~(x.status = Completed \/ ~Truthy(x.assignee)) /\ x.assignee = name
        Overdue(x) == Counted(x) /\ getTaskDueStatus(x.targetDate, x.status, t, z) = "overdue"
        DueSoon(x) == Counted(x) /\ getTaskDueStatus(x.targetDate, x.status, t, z) = "due-soon"
    IN  [assignee |-> name, overdue |-> Len(SelectSeq(ts, Overdue)),
         dueSoon |-> Len(SelectSeq(ts, DueSoon)), total |-> Len(SelectSeq(ts, Counted))]

(* the comparator of line 221 *)
StatsCompare(a, b) ==
    IF b.overdue - a.overdue # 0 THEN b.overdue - a.overdue ELSE b.dueSoon - a.dueSoon

(* the entries left in the order of the keys *)
StatsUnsorted(es) == es

(* .sort(cmp) (App.tsx:221): the comparator is consistent and the sort stable,
   so each entry goes behind every entry already placed that is not after it *)
RECURSIVE StatsSort(_)
StatsSort(es) ==
    IF es = <<>> THEN <<>>
    ELSE LET init == StatsSort(SubSeq(es, 1, Len(es) - 1))
             e == es[Len(es)]
             NotAfter(x) == StatsCompare(x, e) <= 0
             k == Len(SelectSeq(init, NotAfter))
         IN  SubSeq(init, 1, k) \o <<e>> \o SubSeq(init, k + 1, Len(init))

assigneeStats(ts, t, z) ==
    LET keys == StatsKeys(ts)
        entries == [i \in 1..Len(keys) |-> StatsOf(ts, keys[i], t, z)]
        Urgent(e) == e.overdue > 0 \/ e.dueSoon > 0
    IN  StatsSort(SelectSeq(entries, Urgent))

(* JSON.stringify(tasks) (App.tsx:72): a property whose value is undefined is
   left out of the text.  The text of an array of tasks is kept as the
   sequence of its objects, each the function from the property names that
   are written to their values. *)
OptionalFields == {"targetDate", "notes", "actualCompletedDate"}     \* types.ts:23-48
JSONStringifyTruthy(ts) ==     \* a writer that also leaves out the empty strings
    [i \in 1..Len(ts) |->
        [k \in {f \in DOMAIN ts[i] : f \in OptionalFields => Truthy(ts[i][f])} |-> ts[i][k]]]
JSONStringify(ts) ==
    [i \in 1..Len(ts) |->
        [k \in {f \in DOMAIN ts[i] : f \in OptionalFields => ts[i][f] # Null} |-> ts[i][k]]]

(* JSON.parse(savedTasks) (App.tsx:62) read as Task[]: a property the text
   does not hold reads as undefined *)
TaskFields ==
    {"id", "taskNumber", "assignedDate", "system", "category", "assigner", "assignee", "content",
     "targetDate", "status", "priority", "tags", "progress", "reports", "notes",
     "syncedCalendar", "syncedSheet", "actualCompletedDate"}
JSONParse(text) ==
    [i \in 1..Len(text) |->
        [k \in TaskFields |-> IF k \in DOMAIN text[i] THEN text[i][k] ELSE Null]]

(* the save effect (App.tsx:71-73), run after a render in which tasks is a
   new array: what the 'tasks' key holds afterwards *)
SaveEffect(ts, stored) == <<JSONStringify(ts)>>

Persist == storedTasks' = SaveEffect(tasks', storedTasks)

-----------------------------------------------------------------------------
(* Task creation *)

DefaultSystem == <<"o">>        \* '其他'
DefaultCategory == <<"t">>      \* '待辦'
Unconfirmed == <<"?">>          \* '待確認'
ScriptHost == "script.google.com"
DEFAULT_SHEET_URL == <<"https://docs.google.com/">>     \* App.tsx:9

(* generateTaskNumber counting every task of the store, whatever its prefix *)
generateTaskNumberOfStore(ts, t, z) ==
    LET d == LocalDay(t, z)
        prefix == PadStart2(ToStr(MonthOfDay(d))) \o PadStart2(ToStr(DateOfDay(d)))
    IN  prefix \o <<"-">> \o ToStr(Len(ts) + 1)

(* generateTaskNumber (App.tsx:384-391): ts is the tasks value of the render
   whose closure runs, t the instant of the call *)
generateTaskNumber(ts, t, z) ==
    LET d == LocalDay(t, z)
        mm == PadStart2(ToStr(MonthOfDay(d)))
        dd == PadStart2(ToStr(DateOfDay(d)))
        prefix == mm \o dd
        HasPrefix(x) == StartsWith(x.taskNumber, prefix)
        dailyCount == Len(SelectSeq(ts, HasPrefix)) + 1
    IN  prefix \o <<"-">> \o ToStr(dailyCount)

(* the newTask literal with the sheet flag raised ahead of the silent sync *)
NewTaskMarkedSynced(m, r, ts, id, t, z) ==
    [ id |-> id, taskNumber |-> generateTaskNumber(ts, t, z),
      assignedDate |-> Or(m.assignedDate, ISODate(t)),
      system |-> Or(m.system, Or(r.system, DefaultSystem)),
      category |-> Or(m.category, Or(r.category, DefaultCategory)),
      assigner |-> Or(m.assigner, Or(r.assigner, Unconfirmed)),
      assignee |-> Or(m.assignee, Or(r.assignee, Unconfirmed)),
      content |-> r.content, targetDate |-> Or(m.targetDate, Or(r.targetDate, Null)),
      status |-> NotStarted, priority |-> m.priority, tags |-> Or(r.tags, <<>>),
      progress |-> 0, reports |-> <<>>, notes |-> EmptyStr, syncedCalendar |-> FALSE,
      syncedSheet |-> TRUE, actualCompletedDate |-> EmptyStr ]

(* the newTask literal of handleAddTask (App.tsx:338-365): m the manual
   fields, r the parsed response, ts the tasks of the closure *)
NewTask(m, r, ts, id, t, z) ==
    [ id |-> id,
      taskNumber |-> generateTaskNumber(ts, t, z),
      assignedDate |-> Or(m.assignedDate, ISODate(t)),
      system |-> Or(m.system, Or(r.system, DefaultSystem)),
      category |-> Or(m.category, Or(r.category, DefaultCategory)),
      assigner |-> Or(m.assigner, Or(r.assigner, Unconfirmed)),
      assignee |-> Or(m.assignee, Or(r.assignee, Unconfirmed)),
      content |-> r.content,
      targetDate |-> Or(m.targetDate, Or(r.targetDate, Null)),
      status |-> NotStarted,
      priority |-> m.priority,
      tags |-> Or(r.tags, <<>>),
      progress |-> 0,
      reports |-> <<>>,
      notes |-> EmptyStr,
      syncedCalendar |-> FALSE,
      syncedSheet |-> FALSE,
      actualCompletedDate |-> EmptyStr ]

ModalClosed == selectedTaskForReport = <<>>

(* typing into the task input (App.tsx:742) *)
SetInputValue(v) ==
    /\ ModalClosed
    /\ inputValue' = v
    /\ UNCHANGED createdOn
    /\ lastOp' = [op |-> "SetInputValue"]
    /\ UNCHANGED <<tasks, storedTasks, status, error, selectedTaskForReport, searchQuery, filterAssignee,
                   filterStatus, sortOrder, selectedTaskIds, filteredTasks, scriptUrl, googleSheetUrl,
                   pendingAdd, pendingSync, alerts, now, tz, nextId>>

(* handleAddTask up to its await (App.tsx:327-335) *)
AddTaskBegin(m) ==
    /\ ModalClosed
    /\ Trim(inputValue) # EmptyStr
    /\ Len(tasks) + Len(pendingAdd) < MaxTasks
    /\ nextId + Len(pendingAdd) <= MaxIds
    /\ status' = [isProcessing |-> TRUE, message |-> "analysing"]
    /\ error' = NoError
    /\ pendingAdd' = Append(pendingAdd, [input |-> inputValue, tasks |-> tasks, manual |-> m])
    /\ UNCHANGED createdOn
    /\ lastOp' = [op |-> "AddTaskBegin"]
    /\ UNCHANGED <<tasks, storedTasks, inputValue, selectedTaskForReport, searchQuery, filterAssignee,
                   filterStatus, sortOrder, selectedTaskIds, filteredTasks, scriptUrl, googleSheetUrl,
                   pendingSync, alerts, now, tz, nextId>>

(* handleAddTask with setInputValue('') moved into the finally block *)
AddTaskResolveClearsInput(k, o) ==
    /\ k \in 1..Len(pendingAdd)
    /\ LET p == pendingAdd[k]
           newTask == NewTask(p.manual, o.data, p.tasks, nextId, now, tz)
       IN  /\ pendingAdd' = SubSeq(pendingAdd, 1, k - 1) \o SubSeq(pendingAdd, k + 1, Len(pendingAdd))
           /\ IF o.kind = "parsed"
              THEN /\ tasks' = <<newTask>> \o tasks
                   /\ inputValue' = EmptyStr
                   /\ nextId' = nextId + 1
                   /\ error' = error
                   /\ pendingSync' =
                        IF Truthy(scriptUrl) /\ Includes(scriptUrl, <<ScriptHost>>)
                        THEN Append(pendingSync,
                                    [kind |-> "sheet", path |-> "fetch", ids |-> {newTask.id},
                                     silent |-> TRUE, sheetUrl |-> googleSheetUrl])
                        ELSE pendingSync
                   /\ createdOn' = (newTask.id :> LocalDay(now, tz)) @@ createdOn
                   /\ lastOp' = [op |-> "AddTask", outcome |-> o.kind, id |-> newTask.id,
                                 before |-> tasks, inputBefore |-> inputValue,
                                 alertsBefore |-> alerts]
              ELSE /\ error' = IF o.kind = "null" THEN "unrecognised" ELSE "failed"
                   /\ lastOp' = [op |-> "AddTask", outcome |-> o.kind, id |-> 0,
                                 before |-> tasks, inputBefore |-> inputValue,
                                 alertsBefore |-> alerts]
                   /\ inputValue' = EmptyStr
                   /\ UNCHANGED <<tasks, storedTasks, nextId, pendingSync, createdOn>>
    /\ status' = IdleStatus
    /\ UNCHANGED <<selectedTaskForReport, searchQuery, filterAssignee, filterStatus, sortOrder,
                   selectedTaskIds, scriptUrl, googleSheetUrl, alerts, now, tz>>
    /\ IF o.kind = "parsed" THEN Render /\ Persist ELSE UNCHANGED filteredTasks

(* handleAddTask from the await on (App.tsx:335-381), with the part of the
   silent handleSyncSheet(newTask, true) that runs before its own await
   (App.tsx:247-293): k is the suspended call, o what the extraction gave *)
AddTaskResolve(k, o) ==
    /\ k \in 1..Len(pendingAdd)
    /\ LET p == pendingAdd[k]
           newTask == NewTask(p.manual, o.data, p.tasks, nextId, now, tz)
       IN  /\ pendingAdd' = SubSeq(pendingAdd, 1, k - 1) \o SubSeq(pendingAdd, k + 1, Len(pendingAdd))
           /\ IF o.kind = "parsed"
              THEN /\ tasks' = <<newTask>> \o tasks
                   /\ inputValue' = EmptyStr
                   /\ nextId' = nextId + 1
                   /\ error' = error
                   /\ pendingSync' =
                        IF Truthy(scriptUrl) /\ Includes(scriptUrl, <<ScriptHost>>)
                        THEN Append(pendingSync,
                                    [kind |-> "sheet", path |-> "fetch", ids |-> {newTask.id},
                                     silent |-> TRUE, sheetUrl |-> googleSheetUrl])
                        ELSE pendingSync
                   /\ createdOn' = (newTask.id :> LocalDay(now, tz)) @@ createdOn
                   /\ lastOp' = [op |-> "AddTask", outcome |-> o.kind, id |-> newTask.id,
                                 before |-> tasks, inputBefore |-> inputValue,
                                 alertsBefore |-> alerts]
              ELSE /\ error' = IF o.kind = "null" THEN "unrecognised" ELSE "failed"
                   /\ lastOp' = [op |-> "AddTask", outcome |-> o.kind, id |-> 0,
                                 before |-> tasks, inputBefore |-> inputValue,
                                 alertsBefore |-> alerts]
                   /\ UNCHANGED <<tasks, storedTasks, inputValue, nextId, pendingSync, createdOn>>
    /\ status' = IdleStatus
    /\ UNCHANGED <<selectedTaskForReport, searchQuery, filterAssignee, filterStatus, sortOrder,
                   selectedTaskIds, scriptUrl, googleSheetUrl, alerts, now, tz>>
    /\ IF o.kind = "parsed" THEN Render /\ Persist ELSE UNCHANGED filteredTasks

(* the wall clock moves on *)
Tick(t) ==
    /\ t \in Instants
    /\ t > now
    /\ now' = t
    /\ UNCHANGED createdOn
    /\ lastOp' = [op |-> "Tick"]
    /\ UNCHANGED <<tasks, storedTasks, inputValue, status, error, selectedTaskForReport, searchQuery,
                   filterAssignee, filterStatus, sortOrder, selectedTaskIds, filteredTasks,
                   scriptUrl, googleSheetUrl, pendingAdd, pendingSync, alerts, tz, nextId>>

-----------------------------------------------------------------------------
(* Reconciliation: the per-task functions of the three setTasks updaters *)

(* an updater that writes the field and reconciles nothing *)
UpdatedTaskPlain(t, field, value, at) == [t EXCEPT ![field] = value]

(* an updater that marks the edited task as not yet written to the sheet *)
UpdatedTaskUnsynced(t, field, value, at) ==
    [[t EXCEPT ![field] = value] EXCEPT !.syncedSheet = FALSE]

(* the updater of handleUpdateTask (App.tsx:395-433) applied to the task t *)
UpdatedTask(t, field, value, at) ==
    LET u0 == [t EXCEPT ![field] = value]
        u1 == IF field = "status"
              THEN IF value = Completed
                   THEN [u0 EXCEPT !.progress = 100, !.actualCompletedDate = ISODate(at)]
                   ELSE IF t.status = Completed /\ value # Completed
                        THEN [u0 EXCEPT !.actualCompletedDate = EmptyStr]
                        ELSE u0
              ELSE u0
        u2 == IF field = "progress"
              THEN IF value = 100
                   THEN [u1 EXCEPT !.status = Completed, !.actualCompletedDate = ISODate(at)]
                   ELSE IF value < 100 /\ t.progress = 100
                        THEN [u1 EXCEPT !.status = InProgress, !.actualCompletedDate = EmptyStr]
                        ELSE u1
              ELSE u1
        u3 == IF field = "actualCompletedDate"
              THEN IF Truthy(value)
                   THEN [u2 EXCEPT !.progress = 100, !.status = Completed]
                   ELSE IF u2.status = Completed
                        THEN [u2 EXCEPT !.status = InProgress]
                        ELSE u2
              ELSE u2
    IN  u3

(* handleStatusChange keeping the completion date of a task that leaves
   completed *)
StatusChangedKeepsDate(t, newStatus, at) ==
    LET isComplete == newStatus = Completed
    IN  [t EXCEPT !.status = newStatus,
                  !.progress = IF isComplete THEN 100 ELSE t.progress,
                  !.actualCompletedDate = IF isComplete THEN ISODate(at)
                                          ELSE t.actualCompletedDate]

(* the updater of handleStatusChange (App.tsx:439-447) applied to the task t *)
StatusChanged(t, newStatus, at) ==
    LET isComplete == newStatus = Completed
    IN  [t EXCEPT !.status = newStatus,
                  !.progress = IF isComplete THEN 100 ELSE t.progress,
                  !.actualCompletedDate =
                      IF isComplete THEN ISODate(at)
                      ELSE IF t.status = Completed THEN EmptyStr ELSE t.actualCompletedDate]

(* handleSaveReport moving every task reported below 100 to in-progress *)
ReportSavedAlwaysStarts(t, progress, reportContent, reportId, at) ==
    LET newReport == [id |-> reportId, date |-> ISODate(at), reporter |-> t.assignee,
                      content |-> reportContent, progress |-> progress, timestamp |-> at]
    IN  [t EXCEPT !.progress = progress,
                  !.status = IF progress = 100 THEN Completed ELSE InProgress,
                  !.actualCompletedDate = IF progress = 100 THEN ISODate(at)
                                          ELSE IF t.progress = 100 THEN EmptyStr
                                          ELSE t.actualCompletedDate,
                  !.reports = IF Truthy(reportContent) THEN Append(t.reports, newReport)
                              ELSE t.reports]

(* handleSaveReport recording in the entry the progress the task had *)
ReportSavedOldProgress(t, progress, reportContent, reportId, at) ==
    LET newReport == [id |-> reportId, date |-> ISODate(at), reporter |-> t.assignee,
                      content |-> reportContent, progress |-> t.progress, timestamp |-> at]
    IN  [t EXCEPT !.progress = progress,
                  !.status = IF progress = 100 THEN Completed ELSE t.status,
                  !.actualCompletedDate = IF progress = 100 THEN ISODate(at)
                                          ELSE IF t.progress = 100 THEN EmptyStr
                                          ELSE t.actualCompletedDate,
                  !.reports = IF Truthy(reportContent) THEN Append(t.reports, newReport)
                              ELSE t.reports]

(* handleSaveReport with the completion date left alone at progress 100 *)
ReportSavedKeepsDate(t, progress, reportContent, reportId, at) ==
    LET newReport == [id |-> reportId, date |-> ISODate(at), reporter |-> t.assignee,
                      content |-> reportContent, progress |-> progress, timestamp |-> at]
    IN  [t EXCEPT !.progress = progress,
                  !.status = IF progress = 100 THEN Completed ELSE t.status,
                  !.reports = IF Truthy(reportContent) THEN Append(t.reports, newReport)
                              ELSE t.reports]

(* the updater of handleSaveReport (App.tsx:551-584) applied to the task t *)
ReportSaved(t, progress, reportContent, reportId, at) ==
    LET newReport == [id |-> reportId, date |-> ISODate(at), reporter |-> t.assignee,
                      content |-> reportContent, progress |-> progress, timestamp |-> at]
        updatedReports == IF Truthy(reportContent) THEN Append(t.reports, newReport) ELSE t.reports
        newStatus == IF progress = 100 THEN Completed
                     ELSE IF progress > 0 /\ t.status = NotStarted THEN InProgress
                     ELSE t.status
        newActualDate == IF progress = 100 THEN ISODate(at)
                         ELSE IF progress > 0 /\ t.status = NotStarted
                              THEN IF t.progress = 100 THEN EmptyStr ELSE t.actualCompletedDate
                         ELSE IF progress < 100 /\ t.progress = 100 THEN EmptyStr
                         ELSE t.actualCompletedDate
    IN  [t EXCEPT !.progress = progress, !.status = newStatus,
                  !.actualCompletedDate = newActualDate, !.reports = updatedReports]

(* handleUpdateTask (App.tsx:393-435) *)
UpdateTask(id, field, value) ==
    /\ ModalClosed
    /\ HasId(tasks, id)
    /\ LET F(t) == UpdatedTask(t, field, value, now)
       IN  tasks' = [i \in 1..Len(tasks) |-> IF tasks[i].id # id THEN tasks[i] ELSE F(tasks[i])]
    /\ UNCHANGED createdOn
    /\ lastOp' = [op |-> "UpdateTask", id |-> id, field |-> field, value |-> value,
                  before |-> tasks[IndexOfId(tasks, id)]]
    /\ UNCHANGED <<inputValue, status, error, selectedTaskForReport, searchQuery, filterAssignee,
                   filterStatus, sortOrder, selectedTaskIds, scriptUrl, googleSheetUrl, pendingAdd, pendingSync,
                   alerts, now, tz, nextId>>
    /\ Render
    /\ Persist

(* handleStatusChange (App.tsx:437-449) *)
StatusChange(id, newStatus) ==
    /\ ModalClosed
    /\ HasId(tasks, id)
    /\ LET F(t) == StatusChanged(t, newStatus, now)
       IN  tasks' = [i \in 1..Len(tasks) |-> IF tasks[i].id # id THEN tasks[i] ELSE F(tasks[i])]
    /\ UNCHANGED createdOn
    /\ lastOp' = [op |-> "StatusChange", id |-> id, value |-> newStatus,
                  before |-> tasks[IndexOfId(tasks, id)]]
    /\ UNCHANGED <<inputValue, status, error, selectedTaskForReport, searchQuery, filterAssignee,
                   filterStatus, sortOrder, selectedTaskIds, scriptUrl, googleSheetUrl, pendingAdd, pendingSync,
                   alerts, now, tz, nextId>>
    /\ Render
    /\ Persist

(* opening the report modal on a task (App.tsx:978, 1018): the modal keeps
   the task object it was opened with *)
OpenReport(id) ==
    /\ ModalClosed
    /\ HasId(tasks, id)
    /\ selectedTaskForReport' = <<tasks[IndexOfId(tasks, id)]>>
    /\ UNCHANGED createdOn
    /\ lastOp' = [op |-> "OpenReport"]
    /\ UNCHANGED <<tasks, storedTasks, inputValue, status, error, searchQuery, filterAssignee, filterStatus,
                   sortOrder, selectedTaskIds, filteredTasks, scriptUrl, googleSheetUrl, pendingAdd, pendingSync,
                   alerts, now, tz, nextId>>

(* the modal's cancel and close buttons (part_000:37, 112) *)
CloseReport ==
    /\ ~ModalClosed
    /\ selectedTaskForReport' = <<>>
    /\ UNCHANGED createdOn
    /\ lastOp' = [op |-> "CloseReport"]
    /\ UNCHANGED <<tasks, storedTasks, inputValue, status, error, searchQuery, filterAssignee, filterStatus,
                   sortOrder, selectedTaskIds, filteredTasks, scriptUrl, googleSheetUrl, pendingAdd, pendingSync,
                   alerts, now, tz, nextId>>

(* TaskReportModal.handleSubmit (part_000:17-25) with the slider at progress
   and the text area holding content; onSave is handleSaveReport
   (App.tsx:549-586), onClose clears selectedTaskForReport *)
SubmitReport(progress, content) ==
    /\ ~ModalClosed
    /\ UNCHANGED <<inputValue, status, error, searchQuery, filterAssignee, filterStatus,
                   sortOrder, selectedTaskIds, scriptUrl, googleSheetUrl, pendingAdd, pendingSync, alerts,
                   now, tz>>
    /\ LET task == selectedTaskForReport[1]
           saves == ~(Trim(content) = EmptyStr /\ progress = task.progress)
           appends == saves /\ Truthy(content) /\ HasId(tasks, task.id)
           F(t) == ReportSaved(t, progress, content, nextId, now)
       IN  /\ appends => /\ nextId <= MaxIds
                         /\ Len(tasks[IndexOfId(tasks, task.id)].reports) < MaxReports
           /\ IF saves
              THEN /\ tasks' = [i \in 1..Len(tasks) |->
                                 IF tasks[i].id # task.id THEN tasks[i] ELSE F(tasks[i])]
                   /\ Render
                   /\ Persist
              ELSE UNCHANGED <<tasks, storedTasks, filteredTasks>>
           /\ nextId' = IF appends THEN nextId + 1 ELSE nextId
           /\ lastOp' = [op |-> "SubmitReport", id |-> task.id, progress |-> progress,
                         content |-> content, saved |-> saves,
                         before |-> IF HasId(tasks, task.id)
                                    THEN tasks[IndexOfId(tasks, task.id)] ELSE task]
    /\ selectedTaskForReport' = <<>>
    /\ UNCHANGED createdOn

-----------------------------------------------------------------------------
(* Deletion, import, view parameters *)

(* handleDeleteTask without its setSelectedTaskIds call *)
DeleteTaskKeepsSelection(id, confirmed) ==
    /\ ModalClosed
    /\ UNCHANGED <<inputValue, status, error, selectedTaskForReport, searchQuery, filterAssignee,
                   filterStatus, sortOrder, scriptUrl, googleSheetUrl, pendingAdd, pendingSync, alerts, now, tz,
                   nextId>>
    /\ HasId(tasks, id)
    /\ IF confirmed
       THEN /\ LET Keep(t) == t.id # id IN tasks' = SelectSeq(tasks, Keep)
            /\ selectedTaskIds' = selectedTaskIds
            /\ Render
            /\ Persist
       ELSE UNCHANGED <<tasks, storedTasks, selectedTaskIds, filteredTasks>>
    /\ UNCHANGED createdOn
    /\ lastOp' = [op |-> "DeleteTask", id |-> id, confirmed |-> confirmed,
                  before |-> tasks, selectedBefore |-> selectedTaskIds]

(* handleDeleteTask (App.tsx:451-460); confirmed is the answer to window.confirm *)
DeleteTask(id, confirmed) ==
    /\ ModalClosed
    /\ UNCHANGED <<inputValue, status, error, selectedTaskForReport, searchQuery, filterAssignee,
                   filterStatus, sortOrder, scriptUrl, googleSheetUrl, pendingAdd, pendingSync, alerts, now, tz,
                   nextId>>
    /\ HasId(tasks, id)
    /\ IF confirmed
       THEN /\ LET Keep(t) == t.id # id IN tasks' = SelectSeq(tasks, Keep)
            /\ selectedTaskIds' = selectedTaskIds \ {id}
            /\ Render
            /\ Persist
       ELSE UNCHANGED <<tasks, storedTasks, selectedTaskIds, filteredTasks>>
    /\ UNCHANGED createdOn
    /\ lastOp' = [op |-> "DeleteTask", id |-> id, confirmed |-> confirmed,
                  before |-> tasks, selectedBefore |-> selectedTaskIds]

(* a task as a backup file holds it *)
StoredTask(id, number, content, assignee, st, progress, targetDate, notes) ==
    [ id |-> id, taskNumber |-> number, assignedDate |-> ISO(0), system |-> <<"o">>,
      category |-> <<"t">>, assigner |-> <<"?">>, assignee |-> assignee, content |-> content,
      targetDate |-> targetDate, status |-> st, priority |-> "Medium", tags |-> <<>>,
      progress |-> progress, reports |-> <<>>, notes |-> notes, syncedCalendar |-> FALSE,
      syncedSheet |-> FALSE,
      actualCompletedDate |-> IF st = Completed THEN ISO(0) ELSE EmptyStr ]

(* the files offered to the import: text is what FileReader reads; a text
   that is JSON carries the value it denotes *)
ImportFiles ==
    { [text |-> "{oops", isJSON |-> FALSE, type |-> "none", items |-> <<>>],
      [text |-> "{\"tasks\":[]}", isJSON |-> TRUE, type |-> "object", items |-> <<>>],
      [text |-> "5", isJSON |-> TRUE, type |-> "number", items |-> <<>>],
      [text |-> "[]", isJSON |-> TRUE, type |-> "array", items |-> <<>>],
      [text |-> "[t]", isJSON |-> TRUE, type |-> "array",
       items |-> <<StoredTask(101, <<"0", "1", "0", "1", "-", "1">>, <<"a">>, <<"A">>,
                              InProgress, 50, ISO(1), EmptyStr)>>] }

(* JSON.parse(json) and Array.isArray(parsed) (App.tsx:110-111) *)
JSONParseThrows(file) == ~file.isJSON

(* typeof parsed === 'object' in place of Array.isArray(parsed) *)
IsObjectLike(file) == file.type \in {"array", "object"}
IsArray(file) == file.type = "array"

(* handleImportDatabase with the reader's onload (App.tsx:102-127) on a chosen
   file; confirmed is the answer to window.confirm *)
ImportDatabase(file, confirmed) ==
    /\ ModalClosed
    /\ UNCHANGED <<inputValue, status, error, selectedTaskForReport, searchQuery, filterAssignee,
                   filterStatus, sortOrder, selectedTaskIds, scriptUrl, googleSheetUrl, pendingAdd, pendingSync,
                   now, tz, nextId>>
    /\ IF JSONParseThrows(file)
       THEN /\ alerts' = Alert(alerts, "import-failed")
            /\ UNCHANGED <<tasks, storedTasks, filteredTasks>>
       ELSE IF IsArray(file)
       THEN IF confirmed
            THEN /\ tasks' = file.items
                 /\ alerts' = Alert(alerts, "restored")
                 /\ Render
                 /\ Persist
            ELSE UNCHANGED <<tasks, storedTasks, filteredTasks, alerts>>
       ELSE /\ alerts' = Alert(alerts, "format-error")
            /\ UNCHANGED <<tasks, storedTasks, filteredTasks>>
    /\ UNCHANGED createdOn
    /\ lastOp' = [op |-> "ImportDatabase", file |-> file, confirmed |-> confirmed,
                  before |-> tasks, selectedBefore |-> selectedTaskIds, alertsBefore |-> alerts]

(* handleClearDatabase (App.tsx:81-87) with the save effect that follows the
   setTasks([]); confirmed is the answer to window.confirm *)
ClearDatabase(confirmed) ==
    /\ ModalClosed
    /\ UNCHANGED <<inputValue, status, error, selectedTaskForReport, searchQuery, filterAssignee,
                   filterStatus, sortOrder, scriptUrl, googleSheetUrl, pendingAdd, pendingSync,
                   alerts, now, tz, nextId>>
    /\ IF confirmed
       THEN /\ tasks' = <<>>
            /\ selectedTaskIds' = {}
            /\ Render
            /\ storedTasks' = SaveEffect(tasks', <<>>)
       ELSE UNCHANGED <<tasks, storedTasks, selectedTaskIds, filteredTasks>>
    /\ UNCHANGED createdOn
    /\ lastOp' = [op |-> "ClearDatabase", confirmed |-> confirmed, before |-> tasks]

(* The page is loaded again: the component state is built anew (App.tsx:12-42),
   the calls suspended at an await are gone with the page, and the mount
   effects run (App.tsx:47-73): the load effect reads the stored text and
   calls setTasks(JSON.parse(savedTasks)), the save effect writes the still
   empty collection, and after the re-render writes the loaded one.  The two
   URLs live in localStorage and are read back as they were. *)
Reload ==
    /\ inputValue' = EmptyStr
    /\ status' = IdleStatus
    /\ error' = NoError
    /\ selectedTaskForReport' = <<>>
    /\ searchQuery' = EmptyStr
    /\ filterAssignee' = All
    /\ filterStatus' = "all"
    /\ sortOrder' = "default"
    /\ selectedTaskIds' = {}
    /\ pendingAdd' = <<>>
    /\ pendingSync' = <<>>
    /\ tasks' = IF storedTasks # <<>> THEN JSONParse(storedTasks[1]) ELSE <<>>
    /\ storedTasks' = SaveEffect(tasks', SaveEffect(<<>>, storedTasks))
    /\ Render
    /\ UNCHANGED <<scriptUrl, googleSheetUrl, alerts, now, tz, nextId, createdOn>>
    /\ lastOp' = [op |-> "Reload", before |-> tasks, stored |-> storedTasks]

(* the search box and the three selects (App.tsx:797, 808, 817, 827) *)
SetSearchQuery(q) ==
    /\ ModalClosed
    /\ searchQuery' = q
    /\ UNCHANGED createdOn
    /\ lastOp' = [op |-> "SetSearchQuery"]
    /\ UNCHANGED <<tasks, storedTasks, inputValue, status, error, selectedTaskForReport, filterAssignee,
                   filterStatus, sortOrder, selectedTaskIds, scriptUrl, googleSheetUrl, pendingAdd, pendingSync,
                   alerts, now, tz, nextId>>
    /\ Render

SetFilterAssignee(a) ==
    /\ ModalClosed
    /\ filterAssignee' = a
    /\ UNCHANGED createdOn
    /\ lastOp' = [op |-> "SetFilterAssignee"]
    /\ UNCHANGED <<tasks, storedTasks, inputValue, status, error, selectedTaskForReport, searchQuery,
                   filterStatus, sortOrder, selectedTaskIds, scriptUrl, googleSheetUrl, pendingAdd, pendingSync,
                   alerts, now, tz, nextId>>
    /\ Render

SetFilterStatus(f) ==
    /\ ModalClosed
    /\ filterStatus' = f
    /\ UNCHANGED createdOn
    /\ lastOp' = [op |-> "SetFilterStatus"]
    /\ UNCHANGED <<tasks, storedTasks, inputValue, status, error, selectedTaskForReport, searchQuery,
                   filterAssignee, sortOrder, selectedTaskIds, scriptUrl, googleSheetUrl, pendingAdd, pendingSync,
                   alerts, now, tz, nextId>>
    /\ Render

SetSortOrder(o) ==
    /\ ModalClosed
    /\ sortOrder' = o
    /\ UNCHANGED createdOn
    /\ lastOp' = [op |-> "SetSortOrder"]
    /\ UNCHANGED <<tasks, storedTasks, inputValue, status, error, selectedTaskForReport, searchQuery,
                   filterAssignee, filterStatus, selectedTaskIds, scriptUrl, googleSheetUrl, pendingAdd,
                   pendingSync, alerts, now, tz, nextId>>
    /\ Render

(* handleToggleSelect (App.tsx:462-472) *)
ToggleSelect(id) ==
    /\ ModalClosed
    /\ selectedTaskIds' = IF id \in selectedTaskIds THEN selectedTaskIds \ {id}
                          ELSE selectedTaskIds \cup {id}
    /\ UNCHANGED createdOn
    /\ lastOp' = [op |-> "ToggleSelect"]
    /\ UNCHANGED <<tasks, storedTasks, inputValue, status, error, selectedTaskForReport, searchQuery,
                   filterAssignee, filterStatus, sortOrder, filteredTasks, scriptUrl, googleSheetUrl, pendingAdd,
                   pendingSync, alerts, now, tz, nextId>>

(* handleSelectAll (App.tsx:474-480) *)
SelectAll(checked) ==
    /\ ModalClosed
    /\ selectedTaskIds' = IF checked THEN Ids(filteredTasks) ELSE {}
    /\ UNCHANGED createdOn
    /\ lastOp' = [op |-> "SelectAll"]
    /\ UNCHANGED <<tasks, storedTasks, inputValue, status, error, selectedTaskForReport, searchQuery,
                   filterAssignee, filterStatus, sortOrder, filteredTasks, scriptUrl, googleSheetUrl, pendingAdd,
                   pendingSync, alerts, now, tz, nextId>>

-----------------------------------------------------------------------------
(* Synchronisation with Google Sheet and Google Calendar *)

(* scriptUrl.includes('script.google.com') (App.tsx:274, 491) *)
UrlAcceptedAlways(url) == TRUE
UrlAccepted(url) == Includes(url, <<ScriptHost>>)

(* prev.map(t => ids.has(t.id) ? {...t, [flag]: true} : t) marking every task *)
MarkSyncedAll(ts, ids, flag) == [i \in 1..Len(ts) |-> [ts[i] EXCEPT ![flag] = TRUE]]

(* the marked tasks written back without the reports filed meanwhile *)
MarkSyncedStale(ts, ids, flag) ==
    [i \in 1..Len(ts) |-> IF ts[i].id \in ids
                          THEN [ts[i] EXCEPT ![flag] = TRUE, !.reports = <<>>]
                          ELSE ts[i]]

(* prev.map(t => ids.has(t.id) ? {...t, [flag]: true} : t) (App.tsx:297, 310, 517, 537) *)
MarkSynced(ts, ids, flag) ==
    [i \in 1..Len(ts) |-> IF ts[i].id \in ids THEN [ts[i] EXCEPT ![flag] = TRUE] ELSE ts[i]]

SyncFlag(kind) == IF kind = "sheet" THEN "syncedSheet" ELSE "syncedCalendar"

(* the store marked whether or not the dispatch threw *)
SyncSettledAnyway(ts, e, ok) == MarkSynced(ts, e.ids, SyncFlag(e.kind))

(* the store left alone whether or not the dispatch threw *)
SyncSettledNever(ts, e, ok) == ts

(* what the try blocks make of prev (App.tsx:277-302, 306-321, 497-524): the
   setTasks call is reached only when the awaited dispatch did not throw *)
SyncSettled(ts, e, ok) == IF ok THEN MarkSynced(ts, e.ids, SyncFlag(e.kind)) ELSE ts

(* the alert a suspended sync raises once its dispatch settles, "none" when
   it raises none (App.tsx:299-302, 312-320, 518-521) *)
SyncAlert(e, ok) ==
    IF e.kind = "calendar" THEN (IF ok THEN "calendar-sent" ELSE "calendar-failed")
    ELSE IF e.path = "clipboard"
    THEN (IF ok THEN (IF Truthy(e.sheetUrl) THEN "none" ELSE "copied") ELSE "copy-failed")
    ELSE IF e.silent THEN "none"
    ELSE IF ok THEN "sheet-sent" ELSE "sheet-failed"

(* SettingsModal.handleSave (SettingsModal.tsx:20-24) with url in the field *)
SaveSettings(url) ==
    /\ ModalClosed
    /\ scriptUrl' = Trim(url)
    /\ UNCHANGED createdOn
    /\ lastOp' = [op |-> "SaveSettings"]
    /\ UNCHANGED <<tasks, storedTasks, inputValue, status, error, selectedTaskForReport, searchQuery,
                   filterAssignee, filterStatus, sortOrder, selectedTaskIds, filteredTasks,
                   googleSheetUrl, pendingAdd, pendingSync, alerts, now, tz, nextId>>

(* handleSheetUrlChange (App.tsx:75-79) *)
SetSheetUrl(url) ==
    /\ ModalClosed
    /\ googleSheetUrl' = url
    /\ UNCHANGED createdOn
    /\ lastOp' = [op |-> "SetSheetUrl"]
    /\ UNCHANGED <<tasks, storedTasks, inputValue, status, error, selectedTaskForReport, searchQuery,
                   filterAssignee, filterStatus, sortOrder, selectedTaskIds, filteredTasks,
                   scriptUrl, pendingAdd, pendingSync, alerts, now, tz, nextId>>

(* handleSyncSheet(targets) with isSilent false, up to its await
   (App.tsx:247-286, 303-307) *)
SyncSheetRequest(targets) ==
    /\ IF targets = <<>>
       THEN UNCHANGED <<status, alerts, pendingSync>>
       ELSE IF Truthy(scriptUrl)
       THEN IF ~UrlAccepted(scriptUrl)
            THEN /\ alerts' = Alert(alerts, "bad-url")
                 /\ UNCHANGED <<status, pendingSync>>
            ELSE /\ Len(pendingSync) < MaxPending
                 /\ status' = [isProcessing |-> TRUE, message |-> "syncing"]
                 /\ pendingSync' = Append(pendingSync,
                        [kind |-> "sheet", path |-> "fetch", ids |-> Ids(targets),
                         silent |-> FALSE, sheetUrl |-> googleSheetUrl])
                 /\ UNCHANGED alerts
       ELSE /\ Len(pendingSync) < MaxPending
            /\ pendingSync' = Append(pendingSync,
                   [kind |-> "sheet", path |-> "clipboard", ids |-> Ids(targets),
                    silent |-> FALSE, sheetUrl |-> googleSheetUrl])
            /\ UNCHANGED <<status, alerts>>
    /\ UNCHANGED createdOn
    /\ lastOp' = [op |-> "SyncSheet", ids |-> Ids(targets), before |-> tasks, alertsBefore |-> alerts,
                  statusBefore |-> status, pendingBefore |-> pendingSync]
    /\ UNCHANGED <<tasks, storedTasks, inputValue, error, selectedTaskForReport, searchQuery,
                   filterAssignee, filterStatus, sortOrder, selectedTaskIds, filteredTasks,
                   scriptUrl, googleSheetUrl, pendingAdd, now, tz, nextId>>

(* the sheet button of a task card: onSyncSheet={handleSyncSheet} (App.tsx:1017) *)
SyncSheet(id) ==
    /\ ModalClosed
    /\ HasId(tasks, id)
    /\ SyncSheetRequest(<<tasks[IndexOfId(tasks, id)]>>)

(* handleExportList (App.tsx:541-547) *)
handleExportList ==
    /\ ModalClosed
    /\ LET Selected(t) == t.id \in selectedTaskIds
           tasksToExport == IF selectedTaskIds # {} THEN SelectSeq(tasks, Selected)
                            ELSE filteredTasks
       IN  SyncSheetRequest(tasksToExport)

(* handleSyncCalendar (App.tsx:482-539) up to its await, or to its end on the
   paths that have none; task is the card's task *)
SyncCalendar(id) ==
    /\ ModalClosed
    /\ HasId(tasks, id)
    /\ UNCHANGED <<inputValue, error, selectedTaskForReport, searchQuery, filterAssignee,
                   filterStatus, sortOrder, selectedTaskIds, scriptUrl, googleSheetUrl,
                   pendingAdd, now, tz, nextId>>
    /\ LET task == tasks[IndexOfId(tasks, id)]
       IN  IF Truthy(scriptUrl)
           THEN IF ~Truthy(task.targetDate)
                THEN /\ alerts' = Alert(alerts, "need-date")
                     /\ UNCHANGED <<tasks, storedTasks, filteredTasks, status, pendingSync>>
                ELSE IF ~UrlAccepted(scriptUrl)
                THEN /\ alerts' = Alert(alerts, "bad-url")
                     /\ UNCHANGED <<tasks, storedTasks, filteredTasks, status, pendingSync>>
                ELSE /\ Len(pendingSync) < MaxPending
                     /\ status' = [isProcessing |-> TRUE, message |-> "syncing-calendar"]
                     /\ pendingSync' = Append(pendingSync,
                            [kind |-> "calendar", path |-> "fetch", ids |-> {id},
                             silent |-> FALSE, sheetUrl |-> googleSheetUrl])
                     /\ UNCHANGED <<tasks, storedTasks, filteredTasks, alerts>>
           ELSE IF ~Truthy(task.targetDate)
                THEN /\ alerts' = Alert(alerts, "need-date")
                     /\ UNCHANGED <<tasks, storedTasks, filteredTasks, status, pendingSync>>
                ELSE /\ tasks' = MarkSynced(tasks, {id}, "syncedCalendar")
                     /\ Render
                     /\ Persist
                     /\ UNCHANGED <<alerts, status, pendingSync>>
    /\ UNCHANGED createdOn
    /\ lastOp' = [op |-> "SyncCalendar", ids |-> {id}, before |-> tasks, alertsBefore |-> alerts,
                  statusBefore |-> status, pendingBefore |-> pendingSync]

(* a suspended handleSyncSheet or handleSyncCalendar from its await on
   (App.tsx:286-305, 308-321, 508-524): k is the suspended call, ok whether
   the awaited fetch or clipboard write came back without throwing *)
SyncResolve(k, ok) ==
    /\ k \in 1..Len(pendingSync)
    /\ UNCHANGED <<inputValue, error, selectedTaskForReport, searchQuery, filterAssignee,
                   filterStatus, sortOrder, selectedTaskIds, scriptUrl, googleSheetUrl,
                   pendingAdd, now, tz, nextId>>
    /\ LET e == pendingSync[k]
       IN  /\ pendingSync' = SubSeq(pendingSync, 1, k - 1)
                             \o SubSeq(pendingSync, k + 1, Len(pendingSync))
           /\ tasks' = SyncSettled(tasks, e, ok)
           /\ alerts' = IF SyncAlert(e, ok) = "none" THEN alerts
                        ELSE Alert(alerts, SyncAlert(e, ok))
           /\ status' = IF e.path = "fetch" /\ ~e.silent THEN IdleStatus ELSE status
           /\ lastOp' = [op |-> "SyncResolve", entry |-> e, ok |-> ok, before |-> tasks,
                         alertsBefore |-> alerts, statusBefore |-> status]
    /\ IF ok THEN Render /\ Persist ELSE UNCHANGED <<filteredTasks, storedTasks>>
    /\ UNCHANGED createdOn

-----------------------------------------------------------------------------
(* Specifications *)

(* the application after mount with nothing stored (App.tsx:12-73) *)
Init ==
    /\ tasks = <<>>
    /\ inputValue = EmptyStr
    /\ status = IdleStatus
    /\ error = NoError
    /\ selectedTaskForReport = <<>>
    /\ searchQuery = EmptyStr
    /\ filterAssignee = All
    /\ filterStatus = "all"
    /\ sortOrder = "default"
    /\ selectedTaskIds = {}
    /\ filteredTasks = <<>>
    /\ scriptUrl = Null
    /\ googleSheetUrl = DEFAULT_SHEET_URL
    /\ storedTasks = SaveEffect(tasks, <<>>)
    /\ pendingAdd = <<>>
    /\ pendingSync = <<>>
    /\ alerts = <<>>
    /\ now \in Instants
    /\ tz \in Zones
    /\ nextId = 1
    /\ lastOp = NoOp
    /\ createdOn = <<>>

TaskIds == 1..MaxIds
Sequential == pendingAdd = <<>>     \* no creation is suspended
AutoForm == CHOOSE m \in ManualForms : ~Truthy(m.assignee)
MorningInstants == {t \in Instants : t % HoursPerDay = 3}

(* The life of one task made by the creation flow under every reconciliation
   entry point, in one zone, the clock read at one hour of the sampled days. *)
InitRecon == Init /\ tz = 8 /\ now \in MorningInstants
ReconNext ==
    \/ \E v \in Inputs : tasks = <<>> /\ SetInputValue(v)
    \/ tasks = <<>> /\ Sequential /\ AddTaskBegin(AutoForm)
    \/ \E o \in Outcomes : AddTaskResolve(1, o)
    \/ \E id \in TaskIds, v \in TaskStatus : StatusChange(id, v)
    \/ \E id \in TaskIds, v \in TaskStatus : UpdateTask(id, "status", v)
    \/ \E id \in TaskIds, v \in Progresses : UpdateTask(id, "progress", v)
    \/ \E id \in TaskIds, v \in ManualDates \cup {EmptyStr} : UpdateTask(id, "actualCompletedDate", v)
    \/ \E id \in TaskIds : OpenReport(id)
    \/ \E p \in Progresses, c \in Contents : SubmitReport(p, c)
    \/ CloseReport
    \/ \E t \in MorningInstants : Tick(t)

SpecRecon == InitRecon /\ [][ReconNext]_vars

(* Creations and deletions, each creation completing before the next
   operation starts, the clock free to move. *)
NumberNext ==
    \/ \E v \in Inputs : Sequential /\ SetInputValue(v)
    \/ \E m \in ManualForms : Sequential /\ AddTaskBegin(m)
    \/ \E o \in Outcomes : AddTaskResolve(1, o)
    \/ \E id \in TaskIds, c \in BOOLEAN : Sequential /\ DeleteTask(id, c)
    \/ \E t \in Instants : Tick(t)

SpecNumber == Init /\ [][NumberNext]_vars

(* Creations only, one after another, the clock free to move. *)
CreateNext ==
    \/ \E v \in Inputs : Sequential /\ SetInputValue(v)
    \/ \E m \in ManualForms : Sequential /\ AddTaskBegin(m)
    \/ \E o \in Outcomes : AddTaskResolve(1, o)
    \/ \E t \in Instants : Tick(t)

SpecCreate == Init /\ [][CreateNext]_vars

(* Import of backup files into a store filled by creations whose extraction
   returns the response that names nobody, with a selection. *)
BareOutcome == CHOOSE o \in Outcomes : o.kind = "parsed" /\ ~Truthy(o.data.assignee)
ImportNext ==
    \/ \E v \in Inputs : Sequential /\ Trim(v) # EmptyStr /\ SetInputValue(v)
    \/ Sequential /\ AddTaskBegin(AutoForm)
    \/ AddTaskResolve(1, BareOutcome)
    \/ \E id \in Ids(tasks) : ToggleSelect(id)
    \/ \E c \in BOOLEAN : SelectAll(c)
    \/ \E f \in ImportFiles, c \in BOOLEAN : ImportDatabase(f, c)

InitImport == Init /\ tz = 8 /\ now = 3
SpecImport == InitImport /\ [][ImportNext]_vars

(* One task under edits of its target date and status, read on the sampled
   instants in both zones. *)
TargetDates == {ISO(d) : d \in (-2)..(6 + MaxDay)} \cup {EmptyStr}
DueNext ==
    \/ \E v \in Inputs : tasks = <<>> /\ SetInputValue(v)
    \/ \E m \in ManualForms : tasks = <<>> /\ Sequential /\ AddTaskBegin(m)
    \/ \E o \in Outcomes : AddTaskResolve(1, o)
    \/ \E id \in TaskIds, v \in TargetDates : UpdateTask(id, "targetDate", v)
    \/ \E id \in TaskIds, v \in {InProgress, Completed} : StatusChange(id, v)
    \/ \E t \in Instants : Tick(t)

SpecDue == Init /\ [][DueNext]_vars

(* The view of a stored collection under every setting of the search box and
   the three selects.  The collections are the lists without repetition of at
   most MaxList tasks of a pool that varies every field a stage or the
   comparator reads. *)
MaxList == 3
ViewPool ==
    { StoredTask(101, <<"0", "1", "0", "1", "-", "1">>, <<"a">>, <<"A">>, NotStarted, 0, ISO(1), EmptyStr),
      StoredTask(102, <<"0", "1", "0", "1", "-", "2">>, <<"A", " ", "b">>, <<"B">>, Completed, 100, Null, EmptyStr),
      StoredTask(103, <<"0", "1", "0", "2", "-", "1">>, <<"b">>, <<"A">>, InProgress, 50, EmptyStr, <<"a">>),
      StoredTask(104, <<"0", "1", "0", "2", "-", "2">>, <<"b">>, <<"B">>, Waiting, 0, ISO(0), Null),
      StoredTask(105, <<"0", "1", "0", "2", "-", "3">>, <<"b", " ">>, <<"b">>, Completed, 100, ISO(1), EmptyStr) }
ViewLists ==
    UNION { {l \in [1..n -> ViewPool] : \A i, j \in 1..n : l[i] = l[j] => i = j} : n \in 0..MaxList }
Queries == {EmptyStr, <<" ">>, <<"a">>, <<"A">>, <<" ", "b">>, <<"2", "-">>}
uniqueAssignees == {tasks[i].assignee : i \in 1..Len(tasks)} \ {EmptyStr}   \* App.tsx:146-149

InitView ==
    /\ tasks \in ViewLists
    /\ inputValue = EmptyStr
    /\ status = IdleStatus
    /\ error = NoError
    /\ selectedTaskForReport = <<>>
    /\ searchQuery = EmptyStr
    /\ filterAssignee = All
    /\ filterStatus = "all"
    /\ sortOrder = "default"
    /\ selectedTaskIds = {}
    /\ filteredTasks \in View(tasks, searchQuery, filterAssignee, filterStatus, sortOrder)
    /\ scriptUrl = Null
    /\ googleSheetUrl = DEFAULT_SHEET_URL
    /\ storedTasks = SaveEffect(tasks, <<>>)
    /\ pendingAdd = <<>>
    /\ pendingSync = <<>>
    /\ alerts = <<>>
    /\ now = 3
    /\ tz = 8
    /\ nextId = 1
    /\ lastOp = NoOp
    /\ createdOn = <<>>

ViewNext ==
    \/ \E q \in Queries : SetSearchQuery(q)
    \/ \E a \in {All} \cup uniqueAssignees : SetFilterAssignee(a)
    \/ \E f \in {"all", "unfinished", "finished"} : SetFilterStatus(f)
    \/ \E o \in {"default", "date_asc", "date_desc"} : SetSortOrder(o)

SpecView == InitView /\ [][ViewNext]_vars

(* The urgency statistics of a stored collection while tasks are deleted and
   the clock moves.  The collections are the lists without repetition of at
   most MaxList tasks of a pool with two tasks per named assignee, a task
   without assignee, a completed one and one without target date. *)
StatsPool ==
    { StoredTask(201, <<"0", "1", "0", "1", "-", "1">>, <<"a">>, <<"A">>, InProgress, 50, ISO(-3), EmptyStr),
      StoredTask(202, <<"0", "1", "0", "1", "-", "2">>, <<"a">>, <<"B">>, NotStarted, 0, ISO(2), EmptyStr),
      StoredTask(203, <<"0", "1", "0", "1", "-", "3">>, <<"a">>, <<"B">>, Waiting, 0, ISO(-3), EmptyStr),
      StoredTask(204, <<"0", "1", "0", "1", "-", "4">>, <<"a">>, <<"A">>, Completed, 100, ISO(-3), EmptyStr),
      StoredTask(205, <<"0", "1", "0", "1", "-", "5">>, <<"a">>, EmptyStr, InProgress, 50, ISO(-3), EmptyStr),
      StoredTask(206, <<"0", "1", "0", "1", "-", "6">>, <<"a">>, <<"A">>, InProgress, 50, ISO(9), EmptyStr),
      StoredTask(207, <<"0", "1", "0", "1", "-", "7">>, <<"a">>, <<"C">>, InProgress, 50, Null, EmptyStr) }
StatsLists ==
    UNION { {l \in [1..n -> StatsPool] : \A i, j \in 1..n : l[i] = l[j] => i = j} : n \in 0..MaxList }

InitStats ==
    /\ tasks \in StatsLists
    /\ inputValue = EmptyStr
    /\ status = IdleStatus
    /\ error = NoError
    /\ selectedTaskForReport = <<>>
    /\ searchQuery = EmptyStr
    /\ filterAssignee = All
    /\ filterStatus = "all"
    /\ sortOrder = "default"
    /\ selectedTaskIds = {}
    /\ filteredTasks \in View(tasks, searchQuery, filterAssignee, filterStatus, sortOrder)
    /\ scriptUrl = Null
    /\ googleSheetUrl = DEFAULT_SHEET_URL
    /\ storedTasks = SaveEffect(tasks, <<>>)
    /\ pendingAdd = <<>>
    /\ pendingSync = <<>>
    /\ alerts = <<>>
    /\ now \in Instants
    /\ tz \in Zones
    /\ nextId = 1
    /\ lastOp = NoOp
    /\ createdOn = <<>>

StatsNext ==
    \/ \E id \in Ids(tasks) : DeleteTask(id, TRUE)
    \/ \E t \in Instants : Tick(t)

SpecStats == InitStats /\ [][StatsNext]_vars

(* Creations that may overlap: the input can be edited and Enter pressed
   again while extractions are outstanding, and these come back in any order. *)
OverlapNext ==
    \/ \E v \in Inputs : SetInputValue(v)
    \/ \E m \in ManualForms : AddTaskBegin(m)
    \/ \E k \in 1..MaxTasks, o \in Outcomes : AddTaskResolve(k, o)
    \/ \E t \in Instants : Tick(t)

InitOverlap == Init /\ tz = 8
SpecOverlap == InitOverlap /\ [][OverlapNext]_vars

(* Selection and deletion over a stored collection of the first four tasks of
   the pool. *)
DeleteNext ==
    \/ \E id \in Ids(tasks) : ToggleSelect(id)
    \/ \E c \in BOOLEAN : SelectAll(c)
    \/ \E id \in Ids(tasks), c \in BOOLEAN : DeleteTask(id, c)

InitDelete == InitStats /\ tz = 8 /\ now = 3 /\ Ids(tasks) \subseteq 201..204
SpecDelete == InitDelete /\ [][DeleteNext]_vars

(* Sheet and calendar synchronisation over a stored collection, with no Apps
   Script URL configured or a well-formed one. *)
GoodUrl == <<" ", "https://", ScriptHost, "/exec">>
BadUrl == <<"https://", "example.com">>
SettingUrls == {EmptyStr, GoodUrl, BadUrl}
SheetUrls == {EmptyStr, DEFAULT_SHEET_URL}

SyncPool ==
    { StoredTask(301, <<"0", "1", "0", "1", "-", "1">>, <<"a">>, <<"A">>, InProgress, 50,
                 ISO(1), EmptyStr),
      StoredTask(302, <<"0", "1", "0", "1", "-", "2">>, <<"b">>, <<"B">>, NotStarted, 0,
                 Null, EmptyStr) }

SyncLists ==
    UNION { {s \in [1..n -> SyncPool] : \A i, j \in 1..n : i # j => s[i].id # s[j].id}
            : n \in 0..Min(MaxTasks, 2) }

InitSync ==
    /\ tasks \in SyncLists
    /\ inputValue = EmptyStr
    /\ status = IdleStatus
    /\ error = NoError
    /\ selectedTaskForReport = <<>>
    /\ searchQuery = EmptyStr
    /\ filterAssignee = All
    /\ filterStatus = "all"
    /\ sortOrder = "default"
    /\ selectedTaskIds = {}
    /\ filteredTasks = tasks
    /\ scriptUrl \in {Null, Trim(GoodUrl)}
    /\ googleSheetUrl = DEFAULT_SHEET_URL
    /\ storedTasks = SaveEffect(tasks, <<>>)
    /\ pendingAdd = <<>>
    /\ pendingSync = <<>>
    /\ alerts = <<>>
    /\ now = 3
    /\ tz = 8
    /\ nextId = 1
    /\ lastOp = NoOp
    /\ createdOn = <<>>

SyncNext ==
    \/ \E id \in Ids(tasks) : SyncSheet(id)
    \/ handleExportList
    \/ \E id \in Ids(tasks) : SyncCalendar(id)
    \/ \E k \in 1..MaxPending, ok \in BOOLEAN : SyncResolve(k, ok)
    \/ \E id \in Ids(tasks) : ToggleSelect(id)
    \/ \E id \in Ids(tasks) : DeleteTask(id, TRUE)

SpecSync == InitSync /\ [][SyncNext]_vars

(* The silent sync of a created task next to the requests the user makes on
   it, from an empty store. *)
ParsedOutcomes == {o \in Outcomes : o.kind = "parsed"}
AutoSyncNext ==
    \/ \E v \in Inputs : tasks = <<>> /\ Trim(v) # EmptyStr /\ SetInputValue(v)
    \/ tasks = <<>> /\ Sequential /\ AddTaskBegin(AutoForm)
    \/ \E o \in ParsedOutcomes : Len(pendingSync) < MaxPending /\ AddTaskResolve(1, o)
    \/ \E u \in SettingUrls : SaveSettings(u)
    \/ \E u \in SheetUrls : SetSheetUrl(u)
    \/ \E id \in Ids(tasks) : SyncSheet(id)
    \/ \E id \in Ids(tasks) : SyncCalendar(id)
    \/ \E k \in 1..MaxPending, ok \in BOOLEAN : SyncResolve(k, ok)

InitAutoSync == Init /\ tz = 8 /\ now = 3
SpecAutoSync == InitAutoSync /\ [][AutoSyncNext]_vars

(* Edits, status changes, reports and sync attempts on a stored collection of
   two tasks, the first already written to the sheet and the calendar and the
   one the edits address; the Apps Script URL is absent, well-formed or
   malformed. *)
FlagLists ==
    { <<[StoredTask(401, <<"0", "1", "0", "1", "-", "1">>, <<"a">>, <<"A">>, InProgress, 50,
                    ISO(1), EmptyStr) EXCEPT !.syncedSheet = TRUE, !.syncedCalendar = TRUE],
        StoredTask(402, <<"0", "1", "0", "1", "-", "2">>, <<"b">>, <<"B">>, NotStarted, 0,
                   ISO(1), EmptyStr)>> }

InitFlags ==
    /\ tasks \in FlagLists
    /\ inputValue = EmptyStr
    /\ status = IdleStatus
    /\ error = NoError
    /\ selectedTaskForReport = <<>>
    /\ searchQuery = EmptyStr
    /\ filterAssignee = All
    /\ filterStatus = "all"
    /\ sortOrder = "default"
    /\ selectedTaskIds = {}
    /\ filteredTasks = tasks
    /\ scriptUrl \in {Null, Trim(GoodUrl), BadUrl}
    /\ googleSheetUrl = DEFAULT_SHEET_URL
    /\ storedTasks = SaveEffect(tasks, <<>>)
    /\ pendingAdd = <<>>
    /\ pendingSync = <<>>
    /\ alerts = <<>>
    /\ now = 3
    /\ tz = 8
    /\ nextId = 1
    /\ lastOp = NoOp
    /\ createdOn = <<>>

EditedIds == {t.id : t \in {ts[1] : ts \in FlagLists}}    \* the task the edits address
FlagsNext ==
    \/ \E id \in Ids(tasks) \cap EditedIds : UpdateTask(id, "content", <<"c">>)
    \/ \E id \in Ids(tasks) \cap EditedIds : StatusChange(id, Completed)
    \/ \E id \in Ids(tasks) \cap EditedIds : OpenReport(id)
    \/ SubmitReport(100, <<"a">>)
    \/ \E id \in Ids(tasks) : SyncSheet(id)
    \/ \E id \in Ids(tasks) : SyncCalendar(id)
    \/ \E k \in 1..MaxPending, ok \in BOOLEAN : SyncResolve(k, ok)

SpecFlags == InitFlags /\ [][FlagsNext]_vars

(* Every handler that rewrites the collection, and reloads of the page in
   between, from an empty store with no Apps Script URL configured. *)
ArrayFiles == {f \in ImportFiles : IsArray(f)}
PersistNext ==
    \/ \E v \in Inputs : tasks = <<>> /\ Trim(v) # EmptyStr /\ SetInputValue(v)
    \/ tasks = <<>> /\ Sequential /\ AddTaskBegin(AutoForm)
    \/ AddTaskResolve(1, BareOutcome)
    \/ \E id \in Ids(tasks) : UpdateTask(id, "targetDate", ISO(1))
    \/ \E id \in Ids(tasks) : StatusChange(id, Completed)
    \/ \E id \in Ids(tasks) : OpenReport(id)
    \/ SubmitReport(50, <<"a">>)
    \/ \E id \in Ids(tasks) : DeleteTask(id, TRUE)
    \/ \E id \in Ids(tasks) : SyncCalendar(id)
    \/ \E f \in ArrayFiles : ImportDatabase(f, TRUE)
    \/ ClearDatabase(TRUE)
    \/ Reload

InitPersist == Init /\ tz = 8 /\ now = 3
SpecPersist == InitPersist /\ [][PersistNext]_vars

(* The two entry points of a status change on a stored collection of a
   completed and an unfinished task, in every zone, the clock free to move. *)
StatusLists ==
    { <<StoredTask(501, <<"0", "1", "0", "1", "-", "1">>, <<"a">>, <<"A">>, Completed, 100,
                   ISO(1), EmptyStr),
        StoredTask(502, <<"0", "1", "0", "1", "-", "2">>, <<"b">>, <<"B">>, InProgress, 50,
                   Null, <<"n">>)>> }

InitStatus ==
    /\ tasks \in StatusLists
    /\ inputValue = EmptyStr
    /\ status = IdleStatus
    /\ error = NoError
    /\ selectedTaskForReport = <<>>
    /\ searchQuery = EmptyStr
    /\ filterAssignee = All
    /\ filterStatus = "all"
    /\ sortOrder = "default"
    /\ selectedTaskIds = {}
    /\ filteredTasks = tasks
    /\ scriptUrl = Null
    /\ googleSheetUrl = DEFAULT_SHEET_URL
    /\ storedTasks = SaveEffect(tasks, <<>>)
    /\ pendingAdd = <<>>
    /\ pendingSync = <<>>
    /\ alerts = <<>>
    /\ now \in Instants
    /\ tz \in Zones
    /\ nextId = 1
    /\ lastOp = NoOp
    /\ createdOn = <<>>

StatusNext ==
    \/ \E id \in Ids(tasks), v \in TaskStatus : StatusChange(id, v)
    \/ \E id \in Ids(tasks), v \in TaskStatus : UpdateTask(id, "status", v)
    \/ \E t \in Instants : Tick(t)

SpecStatus == InitStatus /\ [][StatusNext]_vars

(* Creations with their silent sync, the endpoint configured or not, and
   deletions; every awaited fetch comes back in the end: the promise of a call
   that was made settles, with a value or a throw. *)
AutoSyncFairNext ==
    \/ \E v \in Inputs : tasks = <<>> /\ Trim(v) # EmptyStr /\ SetInputValue(v)
    \/ tasks = <<>> /\ Sequential /\ AddTaskBegin(AutoForm)
    \/ Len(pendingSync) < MaxPending /\ AddTaskResolve(1, BareOutcome)
    \/ \E u \in {EmptyStr, GoodUrl} : SaveSettings(u)
    \/ \E k \in 1..MaxPending, ok \in BOOLEAN : SyncResolve(k, ok)
    \/ \E id \in Ids(tasks) : DeleteTask(id, TRUE)

SpecAutoSyncFair ==
    /\ InitAutoSync
    /\ [][AutoSyncFairNext]_vars
    /\ \A k \in 1..MaxPending : WF_vars(\E ok \in BOOLEAN : SyncResolve(k, ok))

(* Edits, status changes, reports and deletions made while sync calls are
   pending: the calls are made on the collection as it was loaded, and the
   user touches it only while one of them is pending; the edits address the
   task that has not been synced yet, the deletion the other one. *)
Untouched ==
    \E l \in FlagLists :
        /\ Len(tasks) = Len(l)
        /\ \A i \in 1..Len(l) :
              tasks[i] = [l[i] EXCEPT !.syncedSheet = tasks[i].syncedSheet,
                                      !.syncedCalendar = tasks[i].syncedCalendar]
PendingNext ==
    \/ \E id \in Ids(tasks) : Untouched /\ SyncSheet(id)
    \/ \E id \in Ids(tasks) : Untouched /\ SyncCalendar(id)
    \/ \E k \in 1..MaxPending, ok \in BOOLEAN : SyncResolve(k, ok)
    \/ \E id \in Ids(tasks) \ EditedIds :
          pendingSync # <<>> /\ UpdateTask(id, "content", <<"c">>)
    \/ \E id \in Ids(tasks) \ EditedIds :
          pendingSync # <<>> /\ StatusChange(id, Completed)
    \/ \E id \in Ids(tasks) \ EditedIds : pendingSync # <<>> /\ OpenReport(id)
    \/ SubmitReport(100, <<"a">>)
    \/ \E id \in Ids(tasks) \cap EditedIds : pendingSync # <<>> /\ DeleteTask(id, TRUE)

SpecPending == InitFlags /\ [][PendingNext]_vars

-----------------------------------------------------------------------------
(* Claims about the reconciliation engine, checked under SpecRecon *)

Task(id) == tasks[IndexOfId(tasks, id)]
Last(q) == q[Len(q)]
Triangle(t) ==
    /\ t.status = Completed <=> t.progress = 100
    /\ t.progress = 100 <=> Truthy(t.actualCompletedDate)

(* C1: after every step of every sequence of the mutation entry points, every
   task has status = completed <=> progress = 100 <=> actualCompletedDate
   non-empty. *)
C1_TriangleInvariant == \A i \in 1..Len(tasks) : Triangle(tasks[i])

(* C2: setting status to completed on a task whose status is already
   completed is a no-op: the task afterwards equals the task before, whatever
   today is at the second application. *)
C2_CompletionIdempotent ==
    ( /\ \/ lastOp.op = "StatusChange"
         \/ lastOp.op = "UpdateTask" /\ lastOp.field = "status"
      /\ lastOp.value = Completed
      /\ lastOp.before.status = Completed )
    => Task(lastOp.id) = lastOp.before

ReportedComplete(t, before) ==
    /\ t.status = Completed
    /\ t.progress = 100
    /\ t.actualCompletedDate = ISODate(now)
    /\ Len(t.reports) = Len(before.reports) + 1
    /\ Last(t.reports).progress = 100
    /\ SubSeq(t.reports, 1, Len(before.reports)) = before.reports

(* C3 as stated: submitting a report with progress = 100 on a not-started
   task, for any report content, empty content included, sets status =
   completed, progress = 100, actualCompletedDate = today and makes reports
   exactly one entry longer, the new last entry having progress = 100. *)
C3_AnyContent ==
    (lastOp.op = "SubmitReport" /\ lastOp.progress = 100 /\ lastOp.before.status = NotStarted)
    => ReportedComplete(Task(lastOp.id), lastOp.before)

(* C3 amended: the same for every report content that is not empty and
   either holds a character other than white space or is submitted on a task
   whose progress is not 100 yet; today is the UTC date of the clock. *)
C3_ReportCompletes ==
    ( /\ lastOp.op = "SubmitReport"
      /\ lastOp.progress = 100
      /\ lastOp.content # EmptyStr
      /\ Trim(lastOp.content) # EmptyStr \/ lastOp.before.progress # 100
      /\ lastOp.before.status = NotStarted )
    => ReportedComplete(Task(lastOp.id), lastOp.before)

(* C3 witness: such a report has just been submitted on a not-started task *)
C3_Witness ==
    /\ lastOp.op = "SubmitReport"
    /\ lastOp.progress = 100
    /\ Trim(lastOp.content) # EmptyStr
    /\ lastOp.before.status = NotStarted
    /\ lastOp.before.progress = 0
    /\ Len(Task(lastOp.id).reports) = 1
    /\ Task(lastOp.id).status = Completed

-----------------------------------------------------------------------------
(* Claims about the task number allocator *)

(* the label MMDD-N of local day d and ordinal n *)
Prefix(d) == PadStart2(ToStr(MonthOfDay(d))) \o PadStart2(ToStr(DateOfDay(d)))
Label(d, n) == Prefix(d) \o <<"-">> \o ToStr(n)

(* C4: under any sequence of creations and confirmed deletions, each creation
   completing before the next operation starts, no two tasks in the store
   that were created on the same day have the same taskNumber. *)
C4_UniqueWithinDay ==
    \A i, j \in 1..Len(tasks) :
        (i # j /\ createdOn[tasks[i].id] = createdOn[tasks[j].id])
        => tasks[i].taskNumber # tasks[j].taskNumber

(* the tasks created before t (the store grows at the front), those of them
   created on t's day, and whether the others leave t's prefix free *)
EarlierThan(i) == {j \in 1..Len(tasks) : j > i}
SameDayEarlier(i) == {j \in EarlierThan(i) : createdOn[tasks[j].id] = createdOn[tasks[i].id]}
PrefixFree(i) ==
    \A j \in EarlierThan(i) \ SameDayEarlier(i) :
        Prefix(createdOn[tasks[j].id]) # Prefix(createdOn[tasks[i].id])

(* C5 as stated: tasks created one after another on one day, from a store
   with no task of that day's prefix, are numbered MMDD-1, MMDD-2, ... in
   creation order; and the first task created on a different day gets suffix
   -1 whatever tasks exist for other days. *)
C5_NumberingAnyOtherDay ==
    \A i \in 1..Len(tasks) :
        /\ PrefixFree(i)
           => tasks[i].taskNumber = Label(createdOn[tasks[i].id], Cardinality(SameDayEarlier(i)) + 1)
        /\ SameDayEarlier(i) = {}
           => tasks[i].taskNumber = Label(createdOn[tasks[i].id], 1)

(* C5 amended: the same, the first task of a different day getting suffix -1
   whatever tasks exist for days with another MMDD prefix; tasks of the same
   month and day of another year are counted. *)
C5_Numbering ==
    \A i \in 1..Len(tasks) :
        PrefixFree(i)
        => tasks[i].taskNumber = Label(createdOn[tasks[i].id], Cardinality(SameDayEarlier(i)) + 1)

(* C5 witness: two tasks of one day numbered -1 and -2 in creation order *)
C5_Witness ==
    /\ Len(tasks) >= 2
    /\ SameDayEarlier(1) = {2}
    /\ PrefixFree(1)
    /\ tasks[2].taskNumber = Label(createdOn[tasks[2].id], 1)
    /\ tasks[1].taskNumber = Label(createdOn[tasks[1].id], 2)

-----------------------------------------------------------------------------
(* Claim about the import of a backup file, checked under SpecImport *)

(* what the chosen file holds *)
Unparseable(file) == ~file.isJSON
NotAnArray(file) == file.isJSON /\ file.type # "array"

(* C6: importing a parsed JSON value that is not an array leaves the task
   collection and the selected set unchanged and raises the format-error
   alert; a file that is not parseable JSON leaves them unchanged too and
   raises the import-failed alert. *)
C6_MalformedImport ==
    (lastOp.op = "ImportDatabase" /\ (Unparseable(lastOp.file) \/ NotAnArray(lastOp.file)))
    => /\ tasks = lastOp.before
       /\ selectedTaskIds = lastOp.selectedBefore
       /\ alerts = Alert(lastOp.alertsBefore,
                         IF Unparseable(lastOp.file) THEN "import-failed" ELSE "format-error")

(* C6 witness: an object has just been imported, and confirmed, over a store
   that holds tasks, one of them selected *)
C6_Witness ==
    /\ lastOp.op = "ImportDatabase"
    /\ NotAnArray(lastOp.file)
    /\ lastOp.file.type = "object"
    /\ lastOp.confirmed
    /\ lastOp.before # <<>>
    /\ lastOp.selectedBefore # {}
    /\ tasks = lastOp.before
    /\ Last(alerts) = "format-error"

-----------------------------------------------------------------------------
(* Claims about the due-status classifiers, checked under SpecDue *)

(* the classification of a whole number of days from today to the target date *)
DueClass(diffDays) ==
    IF diffDays < 0 THEN "overdue" ELSE IF diffDays <= 3 THEN "due-soon" ELSE "normal"
Expected(t) ==
    IF ~Truthy(t.targetDate) \/ t.status = Completed THEN "normal"
    ELSE DueClass(DayOf(t.targetDate) - LocalDay(now, tz))

(* C7: for every task and every today, with diffDays the whole days from
   today to targetDate, the classification is normal if the task is completed
   or has no targetDate, otherwise overdue if diffDays < 0, due-soon if
   0 <= diffDays <= 3 and normal if diffDays > 3; and the card's classifier
   agrees with the list's, null standing for normal. *)
C7_DueStatus ==
    \A i \in 1..Len(tasks) :
        LET t == tasks[i]
        IN  /\ getTaskDueStatus(t.targetDate, t.status, now, tz) = Expected(t)
            /\ getDueStatus(t, now, tz) = (IF Expected(t) = "normal" THEN "null" ELSE Expected(t))

Urgency(c) == IF c = "overdue" THEN 2 ELSE IF c = "due-soon" THEN 1 ELSE 0

(* C8: for a fixed today and a fixed non-completed status, moving targetDate
   one day earlier never lowers the urgency of the classification (normal <
   due-soon < overdue), and moving it one day later never turns a normal task
   into a due-soon or overdue one. *)
C8_DueMonotone ==
    ( /\ lastOp.op = "UpdateTask"
      /\ lastOp.field = "targetDate"
      /\ Truthy(lastOp.value)
      /\ Truthy(lastOp.before.targetDate)
      /\ lastOp.before.status # Completed )
    => LET t == Task(lastOp.id)
           was == getTaskDueStatus(lastOp.before.targetDate, lastOp.before.status, now, tz)
           is == getTaskDueStatus(t.targetDate, t.status, now, tz)
       IN  /\ DayOf(t.targetDate) = DayOf(lastOp.before.targetDate) - 1
              => Urgency(is) >= Urgency(was)
           /\ (DayOf(t.targetDate) = DayOf(lastOp.before.targetDate) + 1 /\ was = "normal")
              => is = "normal"

(* C8 witness: the target date of an unfinished task has just been moved one
   day earlier, which took the task from due-soon to overdue *)
C8_Witness ==
    /\ lastOp.op = "UpdateTask"
    /\ lastOp.field = "targetDate"
    /\ Truthy(lastOp.value)
    /\ Truthy(lastOp.before.targetDate)
    /\ lastOp.before.status # Completed
    /\ DayOf(lastOp.value) = DayOf(lastOp.before.targetDate) - 1
    /\ getTaskDueStatus(lastOp.before.targetDate, lastOp.before.status, now, tz) = "due-soon"
    /\ getTaskDueStatus(Task(lastOp.id).targetDate, Task(lastOp.id).status, now, tz) = "overdue"

-----------------------------------------------------------------------------
(* Claims about the view, checked under SpecView *)

(* the three stage predicates, each on one task *)
PassesSearch(t, q) ==
    \/ Trim(q) = EmptyStr
    \/ \E field \in {"content", "assignee", "system", "assigner", "taskNumber", "notes"} :
           /\ Truthy(t[field])
           /\ Includes(ToLowerCase(t[field]), ToLowerCase(q))
PassesAssignee(t, fa) == fa = All \/ t.assignee = fa
PassesStatus(t, fs) ==
    \/ fs = "all"
    \/ fs = "unfinished" /\ t.status # Completed
    \/ fs = "finished" /\ t.status = Completed
PassesAll(t) ==
    /\ PassesSearch(t, searchQuery)
    /\ PassesAssignee(t, filterAssignee)
    /\ PassesStatus(t, filterStatus)
SameTasks(a, b) ==
    /\ Len(a) = Len(b)
    /\ \E p \in Perms(Len(a)) : \A i \in 1..Len(a) : a[i] = b[p[i]]

(* C9: the tasks that pass the search, assignee and status stages applied in
   sequence are the tasks of the store, in store order, that satisfy the
   conjunction of the three stage predicates, and the view holds exactly
   these; a search text that is empty or white space only, and the pass-all
   values of the two selects, make their stage pass every task. *)
C9_FilterComposition ==
    /\ FilterStages(tasks, searchQuery, filterAssignee, filterStatus) = SelectSeq(tasks, PassesAll)
    /\ Ids(filteredTasks) = {tasks[i].id : i \in {j \in 1..Len(tasks) : PassesAll(tasks[j])}}
    /\ Trim(searchQuery) = EmptyStr => SearchStage(tasks, searchQuery) = tasks
    /\ filterAssignee = All => AssigneeStage(tasks, filterAssignee) = tasks
    /\ filterStatus = "all" => StatusStage(tasks, filterStatus) = tasks

(* C9 witness: the three stages are all active, each of them alone drops a
   task of the store, and a task passes all three *)
C9_Witness ==
    /\ Len(SearchStage(tasks, searchQuery)) < Len(tasks)
    /\ Len(AssigneeStage(tasks, filterAssignee)) < Len(tasks)
    /\ Len(StatusStage(tasks, filterStatus)) < Len(tasks)
    /\ filteredTasks # <<>>
    /\ Len(filteredTasks) < Len(StatusStage(tasks, filterStatus))

Undated(t) == ~Truthy(t.targetDate)

(* C10: under the ascending-date and the descending-date sort order every
   task of the view with no targetDate (absent or empty) comes after every
   task of the view that has one, and under every sort order the view is a
   permutation of the filtered list. *)
C10_SortTail ==
    /\ SameTasks(filteredTasks, FilterStages(tasks, searchQuery, filterAssignee, filterStatus))
    /\ sortOrder \in {"date_asc", "date_desc"}
       => \A i, j \in 1..Len(filteredTasks) :
              (Undated(filteredTasks[i]) /\ ~Undated(filteredTasks[j])) => i > j

(* C10 witness: a descending-date view of two undated tasks, which led the
   filtered list, and a dated one *)
C10_Witness ==
    /\ sortOrder = "date_desc"
    /\ Len(filteredTasks) = 3
    /\ Undated(tasks[1]) /\ Undated(tasks[2])
    /\ ~Undated(filteredTasks[1])
    /\ Undated(filteredTasks[2]) /\ Undated(filteredTasks[3])
    /\ filteredTasks[2].targetDate # filteredTasks[3].targetDate

-----------------------------------------------------------------------------
(* Claim about the urgency statistics, checked under SpecStats *)

(* the unfinished tasks of an assignee, and those of a classification *)
Unfinished(name) == {i \in 1..Len(tasks) : tasks[i].assignee = name /\ tasks[i].status # Completed}
Classified(name, c) ==
    {i \in Unfinished(name) : getTaskDueStatus(tasks[i].targetDate, tasks[i].status, now, tz) = c}
UrgentAssignees ==
    {name \in {tasks[i].assignee : i \in 1..Len(tasks)} :
        Truthy(name) /\ Classified(name, "overdue") \cup Classified(name, "due-soon") # {}}

(* C11: the statistics hold one entry for each assignee with at least one
   unfinished task classified overdue or due-soon and no other entry; an
   entry's total is the number of the assignee's unfinished tasks, its overdue
   and dueSoon the numbers of those classified so; no entry is named by the
   empty assignee; the entries are ordered by overdue descending, ties by
   dueSoon descending. *)
C11_AssigneeStats ==
    LET S == assigneeStats(tasks, now, tz)
    IN  /\ {S[i].assignee : i \in 1..Len(S)} = UrgentAssignees
        /\ Len(S) = Cardinality(UrgentAssignees)
        /\ \A i \in 1..Len(S) :
              /\ S[i].total = Cardinality(Unfinished(S[i].assignee))
              /\ S[i].overdue = Cardinality(Classified(S[i].assignee, "overdue"))
              /\ S[i].dueSoon = Cardinality(Classified(S[i].assignee, "due-soon"))
              /\ S[i].overdue + S[i].dueSoon <= S[i].total
        /\ \A i, j \in 1..Len(S) :
              i < j => \/ S[i].overdue > S[j].overdue
                       \/ S[i].overdue = S[j].overdue /\ S[i].dueSoon >= S[j].dueSoon

(* C11 witness: after the clock has moved the statistics hold two assignees
   with as many overdue tasks, the one with more due-soon tasks first although
   its tasks come later in the store *)
C11_Witness ==
    LET S == assigneeStats(tasks, now, tz)
    IN  /\ lastOp.op = "Tick"
        /\ Len(S) = 2
        /\ S[1].overdue = S[2].overdue
        /\ S[1].dueSoon > S[2].dueSoon
        /\ tasks[1].assignee = S[2].assignee
        /\ tasks[1].status # Completed

-----------------------------------------------------------------------------
(* Claims about the creation flow, checked under SpecOverlap *)

(* C12: a task added by the creation flow enters the store with status
   not-started, progress 0, no reports, both sync flags false and an empty
   actualCompletedDate; it is put at the front of the collection, and the
   tasks that were in the store follow it unchanged and in their order. *)
C12_Creation ==
    (lastOp.op = "AddTask" /\ lastOp.outcome = "parsed")
    => /\ tasks # <<>>
       /\ tasks[1].id = lastOp.id
       /\ lastOp.id \notin Ids(lastOp.before)
       /\ tasks[1].status = NotStarted
       /\ tasks[1].progress = 0
       /\ tasks[1].reports = <<>>
       /\ ~tasks[1].syncedCalendar
       /\ ~tasks[1].syncedSheet
       /\ tasks[1].actualCompletedDate = EmptyStr
       /\ Tail(tasks) = lastOp.before

(* C12 witness: a task has just been created in front of an earlier one,
   by an extraction that was started before the earlier one was stored *)
C12_Witness ==
    /\ lastOp.op = "AddTask"
    /\ lastOp.outcome = "parsed"
    /\ lastOp.before # <<>>
    /\ Len(tasks) = Len(lastOp.before) + 1
    /\ tasks[1].taskNumber = tasks[2].taskNumber

(* C18: when the extraction of a creation request returns nothing or throws,
   the task collection is as before, the input text is as before, an error
   message is set and the processing indicator is off; and the creation flow
   changes the input text only when it has stored a task. *)
C18_ExtractionFailure ==
    lastOp.op = "AddTask"
    => /\ lastOp.outcome \in {"null", "throw"}
          => /\ tasks = lastOp.before
             /\ inputValue = lastOp.inputBefore
             /\ error # NoError
             /\ ~status.isProcessing
       /\ inputValue # lastOp.inputBefore
          => /\ lastOp.outcome = "parsed"
             /\ inputValue = EmptyStr
             /\ Len(tasks) = Len(lastOp.before) + 1

(* C18 witness: an extraction has just thrown over a store that holds a task
   and an input box that holds text *)
C18_Witness ==
    /\ lastOp.op = "AddTask"
    /\ lastOp.outcome = "throw"
    /\ lastOp.before # <<>>
    /\ Trim(inputValue) # EmptyStr
    /\ error = "failed"

-----------------------------------------------------------------------------
(* Claim about deletion, checked under SpecDelete *)

(* C13: a confirmed delete of task id removes that task and no other from the
   store, the others keeping their order, and removes id and no other id from
   the selected set; a declined delete changes neither. *)
C13_Deletion ==
    lastOp.op = "DeleteTask"
    => IF lastOp.confirmed
       THEN LET k == IndexOfId(lastOp.before, lastOp.id)
            IN  /\ tasks = SubSeq(lastOp.before, 1, k - 1)
                           \o SubSeq(lastOp.before, k + 1, Len(lastOp.before))
                /\ lastOp.id \notin Ids(tasks)
                /\ selectedTaskIds = lastOp.selectedBefore \ {lastOp.id}
       ELSE /\ tasks = lastOp.before
            /\ selectedTaskIds = lastOp.selectedBefore

(* C13 witness: the second of three tasks, selected together with another
   one, has just been deleted *)
C13_Witness ==
    /\ lastOp.op = "DeleteTask"
    /\ lastOp.confirmed
    /\ Len(lastOp.before) = 3
    /\ lastOp.before[2].id = lastOp.id
    /\ lastOp.id \in lastOp.selectedBefore
    /\ selectedTaskIds # {}
    /\ Len(tasks) = 2

-----------------------------------------------------------------------------
(* Claim about the sync flags, checked under SpecFlags *)

FlagKeepingOps ==
    {"UpdateTask", "StatusChange", "SubmitReport", "SyncSheet", "SyncCalendar", "SyncResolve"}

(* C14: a field edit, a status change, a report submission or a sync attempt
   (accepted, rejected, succeeded or failed) never takes a task's syncedSheet
   or syncedCalendar from true to false. *)
C14_FlagsMonotone ==
    [][lastOp'.op \in FlagKeepingOps
       => \A i \in 1..Len(tasks), j \in 1..Len(tasks') :
             tasks[i].id = tasks'[j].id
             => /\ tasks[i].syncedSheet => tasks'[j].syncedSheet
                /\ tasks[i].syncedCalendar => tasks'[j].syncedCalendar]_vars

(* C14 witness: a task written to the sheet and the calendar has had a field
   edited, and a sync of the other task has failed since *)
C14_Witness ==
    /\ lastOp.op = "SyncResolve"
    /\ ~lastOp.ok
    /\ \E i \in 1..Len(tasks) :
          /\ tasks[i].content = <<"c">>
          /\ tasks[i].syncedSheet
          /\ tasks[i].syncedCalendar
          /\ tasks[i].id \notin lastOp.entry.ids

-----------------------------------------------------------------------------
(* Claims about synchronisation, checked under SpecSync *)

FlagOf(e) == IF e.kind = "sheet" THEN "syncedSheet" ELSE "syncedCalendar"

(* the store differs from the store before in the flag of the targets only,
   which is now true *)
OnlyFlagged(before, ids, flag) ==
    /\ Len(tasks) = Len(before)
    /\ \A i \in 1..Len(before) :
          /\ tasks[i][flag] = (before[i][flag] \/ before[i].id \in ids)
          /\ \A f \in DOMAIN before[i] \ {flag} : tasks[i][f] = before[i][f]

(* a calendar request that opened the calendar page itself: no Apps Script
   URL is configured and the task has a target date *)
OpenedCalendar ==
    /\ lastOp.op = "SyncCalendar"
    /\ ~Truthy(scriptUrl)
    /\ \E i \in 1..Len(lastOp.before) :
          lastOp.before[i].id \in lastOp.ids /\ Truthy(lastOp.before[i].targetDate)

(* C15: when the dispatch of a sheet sync comes back without throwing,
   syncedSheet is true for the tasks of the store whose id is among the
   targets and nothing else in the store has changed; when the dispatch of a
   calendar sync comes back without throwing, syncedCalendar is true for the
   one target and nothing else has changed. *)
C15_SyncSuccess ==
    /\ lastOp.op = "SyncResolve" /\ lastOp.ok
       => OnlyFlagged(lastOp.before, lastOp.entry.ids, FlagOf(lastOp.entry))
    /\ OpenedCalendar => OnlyFlagged(lastOp.before, lastOp.ids, "syncedCalendar")

(* C15 witness: a sheet sync of one of two stored tasks has come back, the
   target is marked and the other task is not *)
C15_Witness ==
    /\ lastOp.op = "SyncResolve"
    /\ lastOp.ok
    /\ lastOp.entry.kind = "sheet"
    /\ Len(lastOp.before) = 2
    /\ \E i, j \in 1..2 :
          /\ lastOp.before[i].id \in lastOp.entry.ids
          /\ ~lastOp.before[i].syncedSheet
          /\ tasks[i].syncedSheet
          /\ lastOp.before[j].id \notin lastOp.entry.ids
          /\ ~tasks[j].syncedSheet

FailureAlert(e) ==
    IF e.kind = "calendar" THEN "calendar-failed"
    ELSE IF e.path = "clipboard" THEN "copy-failed" ELSE "sheet-failed"

(* C16: when the dispatch of a sync throws, no task of the store changes; an
   alert reports the failure, except for the silent sync of a task just
   created, which raises none and leaves the task's syncedSheet as it was. *)
C16_TransportFailure ==
    lastOp.op = "SyncResolve" /\ ~lastOp.ok
    => /\ tasks = lastOp.before
       /\ IF lastOp.entry.silent
          THEN alerts = lastOp.alertsBefore
          ELSE alerts = Alert(lastOp.alertsBefore, FailureAlert(lastOp.entry))

(* C16 witness: the silent sync of a created task has failed with no alert
   on the screen, the task is in the store and not marked *)
C16_Witness ==
    /\ lastOp.op = "SyncResolve"
    /\ ~lastOp.ok
    /\ lastOp.entry.silent
    /\ alerts = <<>>
    /\ \E i \in 1..Len(tasks) : tasks[i].id \in lastOp.entry.ids /\ ~tasks[i].syncedSheet

LacksScriptHost(url) == \A i \in 1..Len(url) : url[i] # ScriptHost
Misconfigured == Truthy(scriptUrl) /\ LacksScriptHost(scriptUrl)
ManualRequest == lastOp.op \in {"SyncSheet", "SyncCalendar"}
SilentRequest == lastOp.op = "AddTask" /\ lastOp.outcome = "parsed"
NoDispatchFor(id) == \A k \in 1..Len(pendingSync) : id \notin pendingSync[k].ids
AlertRaised == \E text \in {"bad-url", "need-date"} : alerts = Alert(lastOp.alertsBefore, text)

(* C17 as stated: every sheet or calendar sync request made while the
   configured URL lacks the script host is rejected before any dispatch,
   changes no flag, leaves the processing indicator alone, and raises an
   alert. *)
C17_AnyRequestAlerts ==
    /\ ManualRequest /\ Misconfigured
       => /\ pendingSync = lastOp.pendingBefore
          /\ tasks = lastOp.before
          /\ status = lastOp.statusBefore
          /\ AlertRaised
    /\ SilentRequest /\ Misconfigured
       => /\ NoDispatchFor(lastOp.id)
          /\ ~tasks[1].syncedSheet
          /\ ~status.isProcessing
          /\ AlertRaised

DatelessCalendar ==
    /\ lastOp.op = "SyncCalendar"
    /\ \E i \in 1..Len(lastOp.before) :
          lastOp.before[i].id \in lastOp.ids /\ ~Truthy(lastOp.before[i].targetDate)

(* C17: a sheet or calendar sync request with at least one target, made by
   the user while the configured URL lacks the script host, is rejected
   before any dispatch, changes no flag, leaves the processing indicator alone
   and raises an alert: the one about the URL, or, for a calendar request on a
   task without target date, the one asking for a target date.  The silent
   sync of a task just created is rejected the same way and raises no
   alert. *)
C17_Misconfigured ==
    /\ ManualRequest /\ lastOp.ids # {} /\ Misconfigured
       => /\ pendingSync = lastOp.pendingBefore
          /\ tasks = lastOp.before
          /\ status = lastOp.statusBefore
          /\ alerts = Alert(lastOp.alertsBefore,
                            IF DatelessCalendar THEN "need-date" ELSE "bad-url")
    /\ SilentRequest /\ Misconfigured
       => /\ NoDispatchFor(lastOp.id)
          /\ ~tasks[1].syncedSheet
          /\ ~status.isProcessing
          /\ alerts = lastOp.alertsBefore

(* C17 witness: the sheet button of a task was pressed with a malformed URL
   configured and a clean screen; the URL alert is up *)
C17_Witness ==
    /\ lastOp.op = "SyncSheet"
    /\ lastOp.ids # {}
    /\ Misconfigured
    /\ lastOp.alertsBefore = <<>>
    /\ alerts = <<"bad-url">>
    /\ pendingSync = <<>>

-----------------------------------------------------------------------------
(* Claim about persistence, checked under SpecPersist *)

Mutations ==
    {"AddTask", "UpdateTask", "StatusChange", "SubmitReport", "DeleteTask", "SyncCalendar",
     "SyncResolve", "ImportDatabase", "ClearDatabase"}

(* C19: whenever the application is at rest the text stored under 'tasks' is
   the JSON text of the collection in memory, whichever handler wrote the
   collection last; and a page loaded on a stored collection ends its start-up
   with that collection in memory and in the store. *)
C19_Persistence ==
    /\ storedTasks = <<JSONStringify(tasks)>>
    /\ lastOp.op = "Reload"
       => /\ storedTasks = lastOp.stored
          /\ tasks = lastOp.before

(* C19 witness: a page holding a reported, calendar-synced task with a target
   date has been loaded again *)
C19_Witness ==
    /\ lastOp.op = "Reload"
    /\ Len(tasks) = 1
    /\ Len(tasks[1].reports) = 1
    /\ tasks[1].syncedCalendar
    /\ tasks[1].targetDate = ISO(1)
    /\ lastOp.stored # <<>>

-----------------------------------------------------------------------------
(* Claim about the status change, checked under SpecStatus *)

StatusFields == {"status", "progress", "actualCompletedDate"}

(* the task a status change to v makes of the task t, today being the date
   the clock shows *)
StatusRule(t, u, v) ==
    /\ u.status = v
    /\ IF v = Completed
       THEN u.progress = 100 /\ u.actualCompletedDate = ISODate(now)
       ELSE IF t.status = Completed
       THEN u.actualCompletedDate = EmptyStr /\ u.progress = t.progress
       ELSE u.progress = t.progress /\ u.actualCompletedDate = t.actualCompletedDate
    /\ \A f \in DOMAIN t \ StatusFields : u[f] = t[f]

(* C20: handleStatusChange(t.id, v) and handleUpdateTask(t.id, 'status', v)
   make the same task of t: status = v, with progress = 100 and
   actualCompletedDate = today when v is completed, actualCompletedDate empty
   and progress unchanged when t was completed and v is not, both unchanged
   otherwise; no other field of t and no other task changes. *)
C20_StatusRule ==
    [][( \/ lastOp'.op = "StatusChange"
         \/ lastOp'.op = "UpdateTask" /\ lastOp'.field = "status" )
       => /\ Len(tasks') = Len(tasks)
          /\ \A i \in 1..Len(tasks) :
                IF tasks[i].id = lastOp'.id
                THEN /\ StatusRule(tasks[i], tasks'[i], lastOp'.value)
                     /\ StatusChanged(tasks[i], lastOp'.value, now)
                        = UpdatedTask(tasks[i], "status", lastOp'.value, now)
                ELSE tasks'[i] = tasks[i]]_vars

(* C20 witness: handleUpdateTask has taken a completed task of a store of two
   out of completed, and its completion date is empty *)
C20_Witness ==
    /\ lastOp.op = "UpdateTask"
    /\ lastOp.field = "status"
    /\ lastOp.before.status = Completed
    /\ lastOp.value = Waiting
    /\ Len(tasks) = 2
    /\ Task(lastOp.id).status = Waiting
    /\ Task(lastOp.id).progress = 100
    /\ Task(lastOp.id).actualCompletedDate = EmptyStr

-----------------------------------------------------------------------------
(* Further claims about the reconciliation engine, checked under SpecRecon *)

DateEdit == lastOp.op = "UpdateTask" /\ lastOp.field = "actualCompletedDate"

(* C21: writing a non-empty date d into actualCompletedDate leaves the task
   with actualCompletedDate = d, progress = 100 and status completed;
   clearing it leaves the status in-progress when it was completed and as it
   was otherwise, and the progress as it was. *)
C21_ManualDate ==
    DateEdit
    => LET b == lastOp.before
           t == Task(lastOp.id)
       IN  /\ t.actualCompletedDate = lastOp.value
           /\ IF lastOp.value # EmptyStr
              THEN t.progress = 100 /\ t.status = Completed
              ELSE /\ t.progress = b.progress
                   /\ t.status = IF b.status = Completed THEN InProgress ELSE b.status

(* C21 witness: the completion date of a completed task has been cleared *)
C21_Witness ==
    /\ DateEdit
    /\ lastOp.value = EmptyStr
    /\ lastOp.before.status = Completed
    /\ Task(lastOp.id).status = InProgress
    /\ Task(lastOp.id).progress = 100

(* handleSaveReport has just run on a task that is in the store *)
ReportSavedOp == lastOp.op = "SubmitReport" /\ lastOp.saved /\ HasId(tasks, lastOp.id)

(* C22: after a report with progress p < 100 the task has progress p; its
   status is in-progress when p > 0 and it was not-started, and as it was
   otherwise; its actualCompletedDate is empty when its progress was 100, and
   as it was otherwise. *)
C22_ReportBelow100 ==
    ReportSavedOp /\ lastOp.progress < 100
    => LET b == lastOp.before
           t == Task(lastOp.id)
       IN  /\ t.progress = lastOp.progress
           /\ t.status = IF lastOp.progress > 0 /\ b.status = NotStarted THEN InProgress
                         ELSE b.status
           /\ t.actualCompletedDate = IF b.progress = 100 THEN EmptyStr
                                      ELSE b.actualCompletedDate

(* C22 witness: a completed task has been reported at less than 100: it is
   still completed and its completion date is gone *)
C22_Witness ==
    /\ ReportSavedOp
    /\ lastOp.progress < 100
    /\ lastOp.before.status = Completed
    /\ lastOp.before.progress = 100
    /\ Truthy(lastOp.before.actualCompletedDate)
    /\ Task(lastOp.id).status = Completed
    /\ Task(lastOp.id).actualCompletedDate = EmptyStr

Blank(content) == Trim(content) = EmptyStr

(* C23: a report submitted with empty or white-space-only content and the
   progress the task already has changes nothing; one submitted with such
   content and another progress appends no entry and sets the progress; an
   entry is appended exactly when the content is not empty. *)
C23_EmptyContentReport ==
    lastOp.op = "SubmitReport" /\ HasId(tasks, lastOp.id)
    => LET b == lastOp.before
           t == Task(lastOp.id)
       IN  /\ Blank(lastOp.content) /\ lastOp.progress = b.progress => t = b
           /\ Blank(lastOp.content) /\ lastOp.progress # b.progress
              => t.reports = b.reports /\ t.progress = lastOp.progress
           /\ Len(t.reports) = Len(b.reports) + 1 <=> ~Blank(lastOp.content)

-----------------------------------------------------------------------------
(* Claim about the reports of a task, checked under SpecFlags *)

(* C24: over a field edit, a status change, a report submission or a sync
   operation the reports of a task that stays in the store keep every earlier
   entry in place; at most one entry is added, by a report submission, and it
   records the task's assignee as reporter and the submitted progress. *)
C24_ReportsAppendOnly ==
    [][\A i \in 1..Len(tasks), j \in 1..Len(tasks') :
          tasks[i].id = tasks'[j].id
          => LET old == tasks[i].reports
                 new == tasks'[j].reports
             IN  /\ Len(old) <= Len(new)
                 /\ SubSeq(new, 1, Len(old)) = old
                 /\ Len(new) <= Len(old) + 1
                 /\ Len(new) = Len(old) + 1
                    => /\ lastOp'.op = "SubmitReport"
                       /\ new[Len(new)].reporter = tasks[i].assignee
                       /\ new[Len(new)].progress = lastOp'.progress]_vars

(* C24 witness: a task reported on at 100 by its assignee has since seen a
   sync come back, and holds that report *)
C24_Witness ==
    /\ lastOp.op = "SyncResolve"
    /\ \E i \in 1..Len(tasks) :
          /\ Len(tasks[i].reports) = 1
          /\ tasks[i].reports[1].reporter = tasks[i].assignee
          /\ tasks[i].reports[1].progress = 100
          /\ tasks[i].id \in lastOp.entry.ids

-----------------------------------------------------------------------------
(* Claims about overlapping calls, checked under SpecOverlap *)

(* the tasks of the store ts that carry the prefix of day d *)
CountOfDay(ts, d) == Cardinality({j \in 1..Len(ts) : StartsWith(ts[j].taskNumber, Prefix(d))})

(* C25: a task created by a request that overlapped another one is in the
   store next to the tasks that were there, its number is its day's prefix
   with one more than the count of the tasks carrying that prefix in the store
   it is inserted into, and no task created on the same day has its number. *)
C25_OverlapNumbers ==
    (lastOp.op = "AddTask" /\ lastOp.outcome = "parsed")
    => LET d == createdOn[lastOp.id]
       IN  /\ Ids(tasks) = Ids(lastOp.before) \cup {lastOp.id}
           /\ tasks[1].taskNumber = Label(d, CountOfDay(lastOp.before, d) + 1)
           /\ \A j \in 2..Len(tasks) :
                 createdOn[tasks[j].id] = d => tasks[j].taskNumber # tasks[1].taskNumber

-----------------------------------------------------------------------------
(* Claim about the sync that follows a creation, checked under SpecAutoSyncFair *)

Stored(id) == HasId(tasks, id)
SilentPending(id) ==
    \E k \in 1..Len(pendingSync) : pendingSync[k].silent /\ id \in pendingSync[k].ids
SilentThrew(id) ==
    /\ lastOp.op = "SyncResolve"
    /\ ~lastOp.ok
    /\ lastOp.entry.silent
    /\ id \in lastOp.entry.ids

(* C26: the task created while a well-formed endpoint is configured has its
   sheet sync dispatched, and in the end is marked syncedSheet unless the
   dispatch threw or the task was deleted; a task created while no endpoint
   is configured has no sync dispatched, joins a store otherwise untouched and
   is not marked. *)
C26_AutoSync ==
    /\ \A id \in TaskIds :
          (Stored(id) /\ SilentPending(id))
          ~> (~Stored(id) \/ SilentThrew(id) \/ Task(id).syncedSheet)
    /\ [](lastOp.op = "AddTask" /\ lastOp.outcome = "parsed"
          => IF Truthy(scriptUrl)
             THEN LacksScriptHost(scriptUrl) \/ SilentPending(lastOp.id)
             ELSE /\ ~SilentPending(lastOp.id)
                  /\ ~tasks[1].syncedSheet
                  /\ Tail(tasks) = lastOp.before)

(* C26 witness: the silent sync of a created task has come back and the task
   is marked *)
C26_Witness ==
    /\ lastOp.op = "SyncResolve"
    /\ lastOp.ok
    /\ lastOp.entry.silent
    /\ \E i \in 1..Len(tasks) :
          /\ tasks[i].id \in lastOp.entry.ids
          /\ tasks[i].syncedSheet
          /\ tasks[i].id \in DOMAIN createdOn

-----------------------------------------------------------------------------
(* Claim about the completion date, checked under SpecRecon *)

(* C27: every task with a non-empty actualCompletedDate has status completed
   and progress 100. *)
C27_DatedIsCompleted ==
    \A i \in 1..Len(tasks) :
        Truthy(tasks[i].actualCompletedDate)
        => tasks[i].status = Completed /\ tasks[i].progress = 100

(* C27 witness: a task that was completed and dated has been moved away from
   completed by a report below 100 and holds no date *)
C27_Witness ==
    /\ ReportSavedOp
    /\ lastOp.progress < 100
    /\ Truthy(lastOp.before.actualCompletedDate)
    /\ ~Truthy(Task(lastOp.id).actualCompletedDate)
    /\ Task(lastOp.id).progress < 100

-----------------------------------------------------------------------------
(* Claim about the selection, checked under SpecImport *)

(* C28: every id in the selected set is the id of a task in the store. *)
C28_SelectionInStore == selectedTaskIds \subseteq Ids(tasks)

-----------------------------------------------------------------------------
(* Claim about edits made while a sync is pending, checked under SpecPending *)

(* C29: the completion of a sync call leaves the store with the tasks it
   held, in their order, every field of every task as it was except the sync
   flag of the call's targets: what the user edited, reported or deleted while
   the call was pending stays edited, reported or deleted. *)
C29_NoLostUpdate ==
    [][lastOp'.op = "SyncResolve"
       => /\ Len(tasks') = Len(tasks)
          /\ \A i \in 1..Len(tasks) :
                \A f \in DOMAIN tasks[i] :
                   tasks'[i][f] # tasks[i][f]
                   => /\ f = FlagOf(lastOp'.entry)
                      /\ tasks[i].id \in lastOp'.entry.ids
                      /\ lastOp'.ok]_vars

(* C29 witness: a task of the store was
   edited and the other one deleted while a sheet sync of it was pending;
   the call has come back and the task is marked and still edited *)
C29_Witness ==
    /\ lastOp.op = "SyncResolve"
    /\ lastOp.ok
    /\ lastOp.entry.kind = "sheet"
    /\ Len(tasks) = 1
    /\ tasks[1].id \in lastOp.entry.ids
    /\ tasks[1].content = <<"c">>
    /\ tasks[1].syncedSheet
    /\ ~lastOp.before[1].syncedSheet

-----------------------------------------------------------------------------
(* Claim about the processing indicator, checked under SpecOverlap *)

(* C30: while an extraction or a sync that is not silent is outstanding, the
   processing indicator is on. *)
C30_ProcessingIndicator ==
    (pendingAdd # <<>> \/ \E k \in 1..Len(pendingSync) : ~pendingSync[k].silent)
    => status.isProcessing

====
